---------------------------- MODULE Spec2Model ----------------------------
(***************************************************************************)
(* docmate backend, app/services/ai_proxy.py: AIProxyService.              *)
(*                                                                         *)
(*   Spec      one _call_ai_service call: the retry loop, its network      *)
(*             requests and its backoff waits.                             *)
(*   SpecLive  the same call under the fairness of the event loop.         *)
(*   SpecDiff  _calculate_diff applied to a pair of texts.                 *)
(*   SpecAsm   the four _parse_*_response assemblers applied to a reply.   *)
(*   SpecOp    one operation from its route to the route's answer: the      *)
(*             call, then the assembler or the route's except block.        *)
(*   SpecConc  two concurrent calls on the global service instance.         *)
(*   SpecRoute one HTTP request to a route: the require_auth dependency     *)
(*             (app/core/dependencies.py), then the operation.              *)
(*                                                                         *)
(* A text is a sequence of lexemes (strings of length one or short         *)
(* tokens); difflib and the slices of the code work on such sequences.     *)
(***************************************************************************)
EXTENDS Integers, Sequences, FiniteSets, TLC

VARIABLES
    config,        \* self.api_key, self.base_url, self.model, self.timeout
    max_retries,   \* self.max_retries (settings.AI_MAX_RETRIES)
    pc,            \* position of the call: "start", "loop", "backoff", "returned", "raised"
    attempt,       \* the loop variable of `for attempt in range(self.max_retries)`
    outcomes,      \* what the endpoint answered to each request sent, in order
    log,           \* the requests sent and the waits performed, in order
    ret,           \* the value returned by the call (a reply text) when pc = "returned"
    err,           \* the exception raised by the call when pc = "raised"
    prompt,        \* _call_ai_service: the argument prompt
    history,       \* _call_ai_service: the argument conversation_history
    messages,      \* _call_ai_service: the local list messages
    sent,          \* the messages of request_body as each request carried them
    original,      \* _calculate_diff: the argument original
    modified,      \* _calculate_diff: the argument modified
    dpc,           \* _calculate_diff: "call" before the call, "done" after it
    diffs,         \* _calculate_diff: the returned list of DiffSegment
    op,            \* the operation: "check", "polish", "translate", "rewrite"
    req,           \* the request of the operation
    caller,        \* the caller identity (user_id)
    reply,         \* the reply text returned by _call_ai_service (ai_response)
    apc,           \* the assembler: "parse" before the call, "done" after it
    result,        \* the response the assembler returned
    apath,         \* the path the assembler took: "ok", "failed", "except"
    answer,        \* what the route answered to the HTTP request
    credentials,   \* the Authorization header of the HTTP request
    tasks          \* concurrent requests: the state of the call of each

callVars == <<config, max_retries, pc, attempt, outcomes, log, ret, err, prompt, history, messages, sent>>
diffVars == <<original, modified, dpc, diffs>>
asmVars == <<op, req, caller, reply, apc, result, apath, answer, credentials>>
concVars == <<tasks>>
vars == <<callVars, diffVars, asmVars, concVars>>

-----------------------------------------------------------------------------
(* Bounds *)

\* largest configured max_retries explored (the default of config.py is 3)
MaxRetriesCfg == 3

\* longest text handed to _calculate_diff
MaxTextLen == 3

\* longest request text handed to an assembler
MaxReqLen == 2

\* longest reply of the replies enumerated lexeme by lexeme
MaxReplyLen == 3

-----------------------------------------------------------------------------
(* The endpoint *)

\* the status the code accepts as success (response.status_code == 200)
HTTP_OK == 200

ErrorStatuses == {429, 500}
ErrorBodies == {"body1", "body2"}
TransportMessages == {"timeout", "refused"}
Contents == {"reply1", "reply2"}
\* a 200 answer whose body response.json() rejects, whose body lacks
\* choices[0].message.content, or whose content is null
MalformedKinds == {"badjson", "nofield", "nulltext"}

Outcome(kind, status, body) == [kind |-> kind, status |-> status, body |-> body]

Outcomes ==
    {Outcome("transport", 0, m) : m \in TransportMessages}
    \cup {Outcome("status", s, b) : s \in ErrorStatuses, b \in ErrorBodies}
    \cup {Outcome("ok", HTTP_OK, c) : c \in Contents}
    \cup {Outcome("malformed", HTTP_OK, k) : k \in MalformedKinds}

NoError == [kind |-> "none", status |-> 0, body |-> ""]
NoReply == "<none>"

PostEvent(i) == [ev |-> "post", n |-> i]
SleepEvent(d) == [ev |-> "sleep", n |-> d]

-----------------------------------------------------------------------------
(* _call_ai_service *)

\* lines 26-29: the attributes __init__ takes from the settings
Settings == [api_key |-> "key", base_url |-> "url", model |-> "model", timeout |-> "30s"]

\* conversation_history is Optional[List]: None, or a list of turns
NoHistory == [none |-> TRUE, turns |-> <<>>]
SomeHistory(turns) == [none |-> FALSE, turns |-> turns]

\* `if conversation_history:` is taken for a list that is not empty
Truthy(h) == ~h.none /\ Len(h.turns) > 0

\* a turn of the history is a Dict[str, Any]: keys is the set of its keys
Turn(role, content) == [keys |-> {"role", "content"}, role |-> role, content |-> content]
TurnWithout(key, role, content) ==
    [keys |-> {"role", "content"} \ {key}, role |-> role, content |-> content]

\* msg.get(key, default)
MsgGet(msg, key, default) == IF key \in msg.keys THEN msg[key] ELSE default

Message(role, content) == [role |-> role, content |-> content]

\* the state of a call whose arguments are p and h, before its first statement
CallOf(p, h) ==
    /\ config = Settings
    /\ max_retries \in -1..MaxRetriesCfg
    /\ pc = "start"
    /\ attempt = 0
    /\ outcomes = <<>>
    /\ log = <<>>
    /\ ret = NoReply
    /\ err = NoError
    /\ prompt = p
    /\ history = h
    /\ messages = <<>>
    /\ sent = <<>>

CallPrompts == {<<"prompt">>}
CallHistories ==
    {NoHistory, SomeHistory(<<>>), SomeHistory(<<Turn("user", <<"a">>)>>),
     SomeHistory(<<Turn("assistant", <<"b">>), TurnWithout("role", "", <<"a">>)>>),
     SomeHistory(<<TurnWithout("content", "system", <<>>), Turn("user", <<"a">>)>>)}

InitCall == \E p \in CallPrompts, h \in CallHistories : CallOf(p, h)

\* a list built with the prompt first and the history after it
MessagesOfPromptFirst(p, h) ==
    <<Message("user", p)>> \o
    (IF ~Truthy(h) THEN <<>>
     ELSE [i \in 1..Len(h.turns) |->
              Message(MsgGet(h.turns[i], "role", "user"),
                      MsgGet(h.turns[i], "content", <<>>))])

\* lines 194-205: the list messages for the arguments p and h
MessagesOf(p, h) ==
    (IF ~Truthy(h) THEN <<>>
     ELSE [i \in 1..Len(h.turns) |->
              Message(MsgGet(h.turns[i], "role", "user"),
                      MsgGet(h.turns[i], "content", <<>>))])
    \o <<Message("user", p)>>

\* lines 193-213: the statements before the loop
BuildMessages ==
    /\ pc = "start"
    /\ messages' = MessagesOf(prompt, history)
    /\ pc' = "loop"
    /\ UNCHANGED <<config, max_retries, attempt, outcomes, log, ret, err, prompt, history, sent>>
    /\ UNCHANGED <<diffVars, asmVars, concVars>>

\* a delay that doubles the attempt index instead of raising 2 to its power
BackoffDelayLinear(i) == 2 * i

\* the delay of line 273: asyncio.sleep(2 ** attempt)
BackoffDelay(i) == 2^i

\* a last-attempt test that is one off
IsLastAttemptOffByOne(i) == i = max_retries

\* line 254 and line 267: is this the last attempt of the loop
IsLastAttempt(i) == i = max_retries - 1

\* a success branch that falls through to the backoff instead of returning
OnSuccessFallsThrough(o) ==
    /\ pc' = "backoff"
    /\ UNCHANGED <<ret, err>>

\* lines 229-242: status 200 and a well-formed envelope: return content
OnSuccess(o) ==
    /\ pc' = "returned"
    /\ ret' = o.body
    /\ err' = err

\* a malformed envelope handled like a request error before the last attempt
OnMalformedRetried(o) ==
    /\ pc' = "backoff"
    /\ UNCHANGED <<ret, err>>

\* lines 230-238: status 200 and response.json(), the indexing or
\* len(content) raises; the exception is no httpx.RequestError and leaves
\* the call
OnMalformed(o) ==
    /\ pc' = "raised"
    /\ err' = [kind |-> "malformed", status |-> o.status, body |-> o.body]
    /\ ret' = ret

\* lines 243-255: a status other than 200
OnErrorStatus(o) ==
    IF IsLastAttempt(attempt)
      THEN /\ pc' = "raised"
           /\ err' = [kind |-> "status", status |-> o.status, body |-> o.body]
           /\ ret' = ret
      ELSE /\ pc' = "backoff"
           /\ UNCHANGED <<ret, err>>

\* lines 257-268: client.post raised httpx.RequestError
OnRequestError(o) ==
    IF IsLastAttempt(attempt)
      THEN /\ pc' = "raised"
           /\ err' = [kind |-> "transport", status |-> 0, body |-> o.body]
           /\ ret' = ret
      ELSE /\ pc' = "backoff"
           /\ UNCHANGED <<ret, err>>

\* lines 216-268: one iteration of the loop up to the backoff test: the
\* request is sent (client.post) and the endpoint answers o
Post(o) ==
    /\ pc = "loop"
    /\ attempt < max_retries
    /\ log' = Append(log, PostEvent(attempt))
    /\ outcomes' = Append(outcomes, o)
    /\ sent' = Append(sent, messages)
    /\ CASE o.kind = "ok" -> OnSuccess(o)
         [] o.kind = "malformed" -> OnMalformed(o)
         [] o.kind = "status" -> OnErrorStatus(o)
         [] o.kind = "transport" -> OnRequestError(o)
    /\ UNCHANGED <<config, max_retries, attempt, prompt, history, messages>>
    /\ UNCHANGED <<diffVars, asmVars, concVars>>

\* a retry that does not count the attempt
BackoffKeepsAttempt ==
    /\ pc = "backoff"
    /\ log' = IF attempt < max_retries - 1
                THEN Append(log, SleepEvent(BackoffDelay(attempt)))
                ELSE log
    /\ attempt' = attempt
    /\ pc' = "loop"
    /\ UNCHANGED <<config, max_retries, outcomes, ret, err, prompt, history, messages, sent>>
    /\ UNCHANGED <<diffVars, asmVars, concVars>>

\* lines 270-273 and the loop's next iteration
Backoff ==
    /\ pc = "backoff"
    /\ log' = IF attempt < max_retries - 1
                THEN Append(log, SleepEvent(BackoffDelay(attempt)))
                ELSE log
    /\ attempt' = attempt + 1
    /\ pc' = "loop"
    /\ UNCHANGED <<config, max_retries, outcomes, ret, err, prompt, history, messages, sent>>
    /\ UNCHANGED <<diffVars, asmVars, concVars>>

\* a loop that, run out, returns an empty reply instead of raising
LoopExitReturnsEmpty ==
    /\ pc = "loop"
    /\ attempt >= max_retries
    /\ pc' = "returned"
    /\ ret' = ""
    /\ UNCHANGED <<config, max_retries, attempt, outcomes, log, err, prompt, history, messages, sent>>
    /\ UNCHANGED <<diffVars, asmVars, concVars>>

\* line 275: the loop ran out without returning or raising
LoopExit ==
    /\ pc = "loop"
    /\ attempt >= max_retries
    /\ pc' = "raised"
    /\ err' = [kind |-> "exhausted", status |-> 0, body |-> ""]
    /\ UNCHANGED <<config, max_retries, attempt, outcomes, log, ret, prompt, history, messages, sent>>
    /\ UNCHANGED <<diffVars, asmVars, concVars>>


-----------------------------------------------------------------------------
(* Concurrent requests.  ai_proxy_service is one global instance (line 578); *)
(* every request runs _call_ai_service as a coroutine of its own on the      *)
(* event loop.  A coroutine gives the loop back at `await client.post` and   *)
(* at `await asyncio.sleep`; between two awaits it runs alone.  Its locals   *)
(* (messages, attempt, response) are its own; self is shared.                *)

TaskIds == {"t1", "t2"}

ConcHistories == {NoHistory, SomeHistory(<<Turn("user", <<"a">>)>>)}

ConcOutcomes ==
    {Outcome("transport", 0, "timeout"), Outcome("status", 500, "body1"),
     Outcome("ok", HTTP_OK, "reply1"), Outcome("malformed", HTTP_OK, "badjson")}

\* the locals of a call before its first statement
NewTask(p, h) ==
    [pc |-> "start", attempt |-> 0, outcomes |-> <<>>, log |-> <<>>, ret |-> NoReply,
     err |-> NoError, prompt |-> p, history |-> h, messages |-> <<>>]

InitConc ==
    /\ config = Settings
    /\ max_retries \in -1..MaxRetriesCfg
    /\ tasks \in [TaskIds -> {NewTask(<<"prompt">>, h) : h \in ConcHistories}]
    /\ pc = "idle" /\ attempt = 0 /\ outcomes = <<>> /\ log = <<>>
    /\ ret = NoReply /\ err = NoError
    /\ prompt = <<>> /\ history = NoHistory /\ messages = <<>> /\ sent = <<>>

\* the variables of the concurrent requests while another specification runs
IdleConc == tasks = <<>>

\* an event loop held by a wait: no coroutine runs while another one sleeps
RunnableWhileNoneSleeps(t) == \A u \in TaskIds \ {t} : tasks[u].pc # "sleeping"

\* lines 219 and 273: both waits are awaited, so the event loop runs any
\* coroutine that is ready while others wait
Runnable(t) == TRUE

\* the coroutine t runs up to its next await, return or raise and holds c
Resume(t, c) ==
    /\ Runnable(t)
    /\ tasks' = [tasks EXCEPT ![t] = c]
    /\ UNCHANGED <<callVars, diffVars, asmVars>>

\* lines 193-213
TaskBuild(t) ==
    /\ tasks[t].pc = "start"
    /\ Resume(t, [tasks[t] EXCEPT !.messages = MessagesOf(tasks[t].prompt, tasks[t].history),
                                  !.pc = "loop"])

\* lines 216-227: the request is sent and the coroutine awaits the answer
TaskSend(t) ==
    /\ tasks[t].pc = "loop"
    /\ tasks[t].attempt < max_retries
    /\ Resume(t, [tasks[t] EXCEPT !.log = Append(@, PostEvent(tasks[t].attempt)),
                                  !.pc = "awaiting"])

\* lines 229-273: the answer o arrives; the coroutine runs to its return, its
\* raise, or the await of the backoff
TaskReceive(t, o) ==
    LET c == [tasks[t] EXCEPT !.outcomes = Append(@, o)]
    IN  /\ tasks[t].pc = "awaiting"
        /\ Resume(t,
             CASE o.kind = "ok" -> [c EXCEPT !.pc = "returned", !.ret = o.body]
               [] o.kind = "malformed" ->
                    [c EXCEPT !.pc = "raised",
                              !.err = [kind |-> "malformed", status |-> o.status, body |-> o.body]]
               [] o.kind \in {"status", "transport"} ->
                    IF IsLastAttempt(c.attempt)
                      THEN [c EXCEPT !.pc = "raised",
                                     !.err = [kind |-> o.kind, status |-> o.status,
                                              body |-> o.body]]
                    ELSE IF c.attempt < max_retries - 1
                      THEN [c EXCEPT !.pc = "sleeping",
                                     !.log = Append(@, SleepEvent(BackoffDelay(c.attempt)))]
                    ELSE [c EXCEPT !.pc = "loop", !.attempt = @ + 1])

\* line 273 returns: the wait is over and the loop goes to its next iteration
TaskWake(t) ==
    /\ tasks[t].pc = "sleeping"
    /\ Resume(t, [tasks[t] EXCEPT !.pc = "loop", !.attempt = @ + 1])

\* line 275
TaskLoopExit(t) ==
    /\ tasks[t].pc = "loop"
    /\ tasks[t].attempt >= max_retries
    /\ Resume(t, [tasks[t] EXCEPT !.pc = "raised",
                                  !.err = [kind |-> "exhausted", status |-> 0, body |-> ""]])

TaskNext(t) ==
    \/ TaskBuild(t)
    \/ TaskSend(t)
    \/ \E o \in ConcOutcomes : TaskReceive(t, o)
    \/ TaskWake(t)
    \/ TaskLoopExit(t)

-----------------------------------------------------------------------------
(* Texts *)

Chars == {"a", "b", "c"}

RECURSIVE SeqsUpTo(_, _)
SeqsUpTo(S, n) ==
    IF n = 0 THEN {<<>>}
    ELSE LET shorter == SeqsUpTo(S, n - 1)
         IN  shorter \cup {Append(t, x) : t \in {u \in shorter : Len(u) = n - 1}, x \in S}

Texts == SeqsUpTo(Chars, MaxTextLen)

\* the Python slice s[lo:hi] for 0 <= lo <= hi <= len(s)
Slice(s, lo, hi) == SubSeq(s, lo + 1, hi)

-----------------------------------------------------------------------------
(* difflib.SequenceMatcher(None, a, b), as used by _calculate_diff.  The texts *)
(* are shorter than 200 elements, so no element is treated as popular and     *)
(* no junk exists.                                                            *)

\* the common blocks a[i:i+k] = b[j:j+k], k > 0, inside a[alo:ahi] and b[blo:bhi]
CommonBlocks(a, b, alo, ahi, blo, bhi) ==
    {m \in (alo..(ahi - 1)) \X (blo..(bhi - 1)) \X (1..(ahi - alo)) :
        /\ m[1] + m[3] <= ahi
        /\ m[2] + m[3] <= bhi
        /\ \A d \in 0..(m[3] - 1) : a[m[1] + d + 1] = b[m[2] + d + 1]}

\* find_longest_match: the longest block; of those the one starting earliest
\* in a; of those the one starting earliest in b; (alo, blo, 0) when none
find_longest_match(a, b, alo, ahi, blo, bhi) ==
    LET blocks == CommonBlocks(a, b, alo, ahi, blo, bhi)
    IN  IF blocks = {} THEN <<alo, blo, 0>>
        ELSE CHOOSE m \in blocks :
                \A o \in blocks :
                    \/ m[3] > o[3]
                    \/ m[3] = o[3] /\ m[1] < o[1]
                    \/ m[3] = o[3] /\ m[1] = o[1] /\ m[2] <= o[2]

\* get_matching_blocks, the queue loop and the sort: the longest block, the
\* blocks to its left, the blocks to its right, in increasing order
RECURSIVE RawBlocks(_, _, _, _, _, _)
RawBlocks(a, b, alo, ahi, blo, bhi) ==
    LET x == find_longest_match(a, b, alo, ahi, blo, bhi)
        i == x[1]
        j == x[2]
        k == x[3]
    IN  IF k = 0 THEN <<>>
        ELSE (IF alo < i /\ blo < j THEN RawBlocks(a, b, alo, i, blo, j) ELSE <<>>)
             \o <<x>>
             \o (IF i + k < ahi /\ j + k < bhi
                   THEN RawBlocks(a, b, i + k, ahi, j + k, bhi) ELSE <<>>)

\* get_matching_blocks, the collapse of adjacent blocks: cur is (i1, j1, k1)
RECURSIVE Collapse(_, _, _)
Collapse(blocks, n, cur) ==
    IF n > Len(blocks)
      THEN IF cur[3] > 0 THEN <<cur>> ELSE <<>>
      ELSE LET nb == blocks[n]
           IN  IF cur[1] + cur[3] = nb[1] /\ cur[2] + cur[3] = nb[2]
                 THEN Collapse(blocks, n + 1, <<cur[1], cur[2], cur[3] + nb[3]>>)
                 ELSE (IF cur[3] > 0 THEN <<cur>> ELSE <<>>)
                      \o Collapse(blocks, n + 1, nb)

\* get_matching_blocks: the collapsed blocks and the sentinel (la, lb, 0)
get_matching_blocks(a, b) ==
    Append(Collapse(RawBlocks(a, b, 0, Len(a), 0, Len(b)), 1, <<0, 0, 0>>),
           <<Len(a), Len(b), 0>>)

Opcode(tag, i1, i2, j1, j2) == [tag |-> tag, i1 |-> i1, i2 |-> i2, j1 |-> j1, j2 |-> j2]

\* get_opcodes: the loop over the matching blocks from block n on, with the
\* loop's i and j
RECURSIVE OpcodesFrom(_, _, _, _)
OpcodesFrom(blocks, n, i, j) ==
    IF n > Len(blocks) THEN <<>>
    ELSE LET ai == blocks[n][1]
             bj == blocks[n][2]
             size == blocks[n][3]
             gap == IF i < ai /\ j < bj THEN <<Opcode("replace", i, ai, j, bj)>>
                    ELSE IF i < ai THEN <<Opcode("delete", i, ai, j, bj)>>
                    ELSE IF j < bj THEN <<Opcode("insert", i, ai, j, bj)>>
                    ELSE <<>>
             eq == IF size > 0
                     THEN <<Opcode("equal", ai, ai + size, bj, bj + size)>>
                     ELSE <<>>
         IN  gap \o eq \o OpcodesFrom(blocks, n + 1, ai + size, bj + size)

get_opcodes(a, b) == OpcodesFrom(get_matching_blocks(a, b), 1, 0, 0)

-----------------------------------------------------------------------------
(* _calculate_diff *)

DiffSegment(type, value) == [type |-> type, value |-> value]

\* a loop that forgets the inserted side of a replace opcode
OpcodeSegmentsReplaceAsDelete(oc, orig, modi) ==
    IF oc.tag = "equal" THEN <<DiffSegment("equal", Slice(orig, oc.i1, oc.i2))>>
    ELSE IF oc.tag = "insert" THEN <<DiffSegment("insert", Slice(modi, oc.j1, oc.j2))>>
    ELSE <<DiffSegment("delete", Slice(orig, oc.i1, oc.i2))>>

\* a loop that emits an equal opcode element by element
OpcodeSegmentsEqualPerElement(oc, orig, modi) ==
    IF oc.tag = "equal"
      THEN [n \in 1..(oc.i2 - oc.i1) |-> DiffSegment("equal", <<orig[oc.i1 + n]>>)]
    ELSE IF oc.tag = "delete" THEN <<DiffSegment("delete", Slice(orig, oc.i1, oc.i2))>>
    ELSE IF oc.tag = "insert" THEN <<DiffSegment("insert", Slice(modi, oc.j1, oc.j2))>>
    ELSE <<DiffSegment("delete", Slice(orig, oc.i1, oc.i2)),
           DiffSegment("insert", Slice(modi, oc.j1, oc.j2))>>

\* a loop that appends the inserted side of a replace opcode first
OpcodeSegmentsInsertFirst(oc, orig, modi) ==
    IF oc.tag = "equal" THEN <<DiffSegment("equal", Slice(orig, oc.i1, oc.i2))>>
    ELSE IF oc.tag = "delete" THEN <<DiffSegment("delete", Slice(orig, oc.i1, oc.i2))>>
    ELSE IF oc.tag = "insert" THEN <<DiffSegment("insert", Slice(modi, oc.j1, oc.j2))>>
    ELSE <<DiffSegment("insert", Slice(modi, oc.j1, oc.j2)),
           DiffSegment("delete", Slice(orig, oc.i1, oc.i2))>>

\* lines 342-352: the segments appended for one opcode
OpcodeSegments(oc, orig, modi) ==
    IF oc.tag = "equal" THEN <<DiffSegment("equal", Slice(orig, oc.i1, oc.i2))>>
    ELSE IF oc.tag = "delete" THEN <<DiffSegment("delete", Slice(orig, oc.i1, oc.i2))>>
    ELSE IF oc.tag = "insert" THEN <<DiffSegment("insert", Slice(modi, oc.j1, oc.j2))>>
    ELSE IF oc.tag = "replace" THEN
        (IF oc.i1 < oc.i2 THEN <<DiffSegment("delete", Slice(orig, oc.i1, oc.i2))>> ELSE <<>>)
        \o (IF oc.j1 < oc.j2 THEN <<DiffSegment("insert", Slice(modi, oc.j1, oc.j2))>> ELSE <<>>)
    ELSE <<>>

RECURSIVE SegmentsFrom(_, _, _, _)
SegmentsFrom(ops, n, orig, modi) ==
    IF n > Len(ops) THEN <<>>
    ELSE OpcodeSegments(ops[n], orig, modi) \o SegmentsFrom(ops, n + 1, orig, modi)

\* lines 359-362: the segments returned when the try block raised
DiffFallback(orig, modi) ==
    <<DiffSegment("delete", orig), DiffSegment("insert", modi)>>

\* lines 334-354: the segments returned when the try block ran through
DiffByOpcodes(orig, modi) == SegmentsFrom(get_opcodes(orig, modi), 1, orig, modi)

\* _calculate_diff on two texts; matcherFails says that the matcher raised an
\* exception inside the try block (lines 356-362)
_calculate_diff(orig, modi, matcherFails) ==
    IF matcherFails THEN DiffFallback(orig, modi) ELSE DiffByOpcodes(orig, modi)

InitDiff ==
    /\ original \in Texts
    /\ modified \in Texts
    /\ dpc = "call"
    /\ diffs = <<>>

\* the call returns through the loop over the opcodes
CalculateDiff ==
    /\ dpc = "call"
    /\ diffs' = _calculate_diff(original, modified, FALSE)
    /\ dpc' = "done"
    /\ UNCHANGED <<original, modified>>
    /\ UNCHANGED <<callVars, asmVars, concVars>>

\* the matcher raises and the call returns through the except block
CalculateDiffFallback ==
    /\ dpc = "call"
    /\ diffs' = _calculate_diff(original, modified, TRUE)
    /\ dpc' = "fallback"
    /\ UNCHANGED <<original, modified>>
    /\ UNCHANGED <<callVars, asmVars, concVars>>

\* the variables of the diff call while another specification runs
IdleDiff == original = <<>> /\ modified = <<>> /\ dpc = "idle" /\ diffs = <<>>
\* the variables of the gateway call while another specification runs
IdleCall ==
    /\ config = Settings
    /\ max_retries = 0 /\ pc = "idle" /\ attempt = 0 /\ outcomes = <<>>
    /\ log = <<>> /\ ret = NoReply /\ err = NoError
    /\ prompt = <<>> /\ history = NoHistory /\ messages = <<>> /\ sent = <<>>

-----------------------------------------------------------------------------
(* Reply texts.  A reply is a sequence of lexemes: the characters of Chars, *)
(* the word error, white space, and the lexemes of JSON and of a fence.     *)

WS == "w"              \* a white space character
QUOTE == "Q"           \* the double quote
LBRACE == "{"
RBRACE == "}"
LBRACKET == "["
RBRACKET == "]"
COMMA == ","
NUMBER == "7"          \* the number literal 7
NULL == "N"            \* the literal null
FENCE_JSON == "F"      \* the three backquotes followed by json
FENCE == "T"           \* three backquotes
ERROR_WORD == "error"  \* the characters e r r o r
DEEP_OPEN == "D"       \* a run of [ longer than the interpreter's recursion limit

\* "name": written as one lexeme, an object key with its colon
K_ERROR == "k:error"
K_RAW == "k:raw_response"
K_CORRECTED == "k:correctedText"
K_ISSUES == "k:issues"
K_POLISHED == "k:polishedText"
K_CHANGES == "k:changes"
K_TRANSLATED == "k:translatedText"
K_REWRITTEN == "k:rewrittenText"
K_MESSAGE == "k:message"
K_SUGGESTION == "k:suggestion"
K_START == "k:start"
K_END == "k:end"
K_SEVERITY == "k:severity"
K_TYPE == "k:type"
K_DESCRIPTION == "k:description"
K_ORIGINAL == "k:originalText"
K_REASON == "k:reason"

Keys == {K_ERROR, K_RAW, K_CORRECTED, K_ISSUES, K_POLISHED, K_CHANGES,
         K_TRANSLATED, K_REWRITTEN, K_MESSAGE, K_SUGGESTION, K_START, K_END,
         K_SEVERITY, K_TYPE, K_DESCRIPTION, K_ORIGINAL, K_REASON}

\* str.strip(): the text without its leading and trailing white space
RECURSIVE LStrip(_)
LStrip(t) == IF t # <<>> /\ Head(t) = WS THEN LStrip(Tail(t)) ELSE t
RECURSIVE RStrip(_)
RStrip(t) == IF t # <<>> /\ t[Len(t)] = WS THEN RStrip(SubSeq(t, 1, Len(t) - 1)) ELSE t
Strip(t) == RStrip(LStrip(t))

-----------------------------------------------------------------------------
(* Python values as json.loads builds them *)

StrV(s) == [t |-> "str", s |-> s, n |-> 0, l |-> <<>>, m |-> <<>>]
NumV(n) == [t |-> "num", s |-> <<>>, n |-> n, l |-> <<>>, m |-> <<>>]
NullV == [t |-> "null", s |-> <<>>, n |-> 0, l |-> <<>>, m |-> <<>>]
ListV(l) == [t |-> "list", s |-> <<>>, n |-> 0, l |-> l, m |-> <<>>]
\* a dict is the sequence of its items [k, v] in insertion order
DictV(m) == [t |-> "dict", s |-> <<>>, n |-> 0, l |-> <<>>, m |-> m]

HasKey(d, key) == \E i \in 1..Len(d.m) : d.m[i].k = key

\* dict.get(key, default)
Get(d, key, default) ==
    IF HasKey(d, key)
      THEN d.m[CHOOSE i \in 1..Len(d.m) : d.m[i].k = key].v
      ELSE default

\* d[key] = v while an object is read: a repeated key keeps its place and
\* takes the last value
Put(m, key, v) ==
    IF \E i \in 1..Len(m) : m[i].k = key
      THEN [i \in 1..Len(m) |-> IF m[i].k = key THEN [k |-> key, v |-> v] ELSE m[i]]
      ELSE Append(m, [k |-> key, v |-> v])

-----------------------------------------------------------------------------
(* json.loads on a sequence of lexemes: pos is the index of the next lexeme *)

\* exc names the exception the scanner raised where ok is FALSE
ParseFail == [ok |-> FALSE, v |-> NullV, pos |-> 0, exc |-> "JSONDecodeError"]
Parsed(v, pos) == [ok |-> TRUE, v |-> v, pos |-> pos, exc |-> "none"]
\* the scanner calls itself once per opening bracket; past the recursion
\* limit the interpreter raises RecursionError, which is no JSONDecodeError
ParseRecursion == [ok |-> FALSE, v |-> NullV, pos |-> 0, exc |-> "RecursionError"]

RECURSIVE SkipWs(_, _)
SkipWs(toks, p) == IF p <= Len(toks) /\ toks[p] = WS THEN SkipWs(toks, p + 1) ELSE p

\* the index of the quote that closes the string opened before p, 0 when the
\* string is not closed or a key lexeme (which holds quotes) comes first
RECURSIVE ClosingQuote(_, _)
ClosingQuote(toks, p) ==
    IF p > Len(toks) THEN 0
    ELSE IF toks[p] = QUOTE THEN p
    ELSE IF toks[p] \in Keys THEN 0
    ELSE ClosingQuote(toks, p + 1)

RECURSIVE ParseValue(_, _)
RECURSIVE ParseMember(_, _, _)
RECURSIVE ParseMembersRest(_, _, _)
RECURSIVE ParseElementsRest(_, _, _)

ParseValue(toks, p0) ==
    LET p == SkipWs(toks, p0)
    IN  IF p > Len(toks) THEN ParseFail
        ELSE IF toks[p] = LBRACE THEN
            LET q == SkipWs(toks, p + 1)
            IN  IF q <= Len(toks) /\ toks[q] = RBRACE
                  THEN Parsed(DictV(<<>>), q + 1)
                  ELSE ParseMember(toks, q, <<>>)
        ELSE IF toks[p] = LBRACKET THEN
            LET q == SkipWs(toks, p + 1)
            IN  IF q <= Len(toks) /\ toks[q] = RBRACKET
                  THEN Parsed(ListV(<<>>), q + 1)
                  ELSE LET e == ParseValue(toks, q)
                       IN  IF e.ok THEN ParseElementsRest(toks, e.pos, <<e.v>>)
                           ELSE e
        ELSE IF toks[p] = DEEP_OPEN THEN ParseRecursion
        ELSE IF toks[p] = QUOTE THEN
            LET q == ClosingQuote(toks, p + 1)
            IN  IF q = 0 THEN ParseFail
                ELSE Parsed(StrV(SubSeq(toks, p + 1, q - 1)), q + 1)
        ELSE IF toks[p] = NUMBER THEN Parsed(NumV(7), p + 1)
        ELSE IF toks[p] = NULL THEN Parsed(NullV, p + 1)
        ELSE ParseFail

\* one "name": value pair at p, then the rest of the object
ParseMember(toks, p0, acc) ==
    LET p == SkipWs(toks, p0)
    IN  IF p > Len(toks) \/ toks[p] \notin Keys THEN ParseFail
        ELSE LET e == ParseValue(toks, p + 1)
             IN  IF e.ok THEN ParseMembersRest(toks, e.pos, Put(acc, toks[p], e.v))
                 ELSE e

\* after a pair: the closing brace, or a comma and one more pair
ParseMembersRest(toks, p0, acc) ==
    LET p == SkipWs(toks, p0)
    IN  IF p > Len(toks) THEN ParseFail
        ELSE IF toks[p] = RBRACE THEN Parsed(DictV(acc), p + 1)
        ELSE IF toks[p] = COMMA THEN ParseMember(toks, p + 1, acc)
        ELSE ParseFail

\* after an element: the closing bracket, or a comma and one more element
ParseElementsRest(toks, p0, acc) ==
    LET p == SkipWs(toks, p0)
    IN  IF p > Len(toks) THEN ParseFail
        ELSE IF toks[p] = RBRACKET THEN Parsed(ListV(acc), p + 1)
        ELSE IF toks[p] = COMMA THEN
            LET e == ParseValue(toks, p + 1)
            IN  IF e.ok THEN ParseElementsRest(toks, e.pos, Append(acc, e.v))
                ELSE e
        ELSE ParseFail

\* json.loads(text): [ok, v, exc]; ok is FALSE where json.loads raises:
\* json.JSONDecodeError (no value, or data after the value) or the
\* RecursionError of the scanner
Loaded(r, text) ==
    IF ~r.ok THEN [ok |-> FALSE, v |-> NullV, exc |-> r.exc]
    ELSE IF SkipWs(text, r.pos) > Len(text)
      THEN [ok |-> TRUE, v |-> r.v, exc |-> "none"]
      ELSE [ok |-> FALSE, v |-> NullV, exc |-> "JSONDecodeError"]

json_loads(text) == Loaded(ParseValue(text, 1), text)

-----------------------------------------------------------------------------
(* _extract_json_from_response *)

IsFence(x) == x = FENCE \/ x = FENCE_JSON

\* re.search(r'```json\s*(.*?)\s*```', text, re.DOTALL): [found, group1].
\* The match starts at the first ```json and ends at the first three
\* backquotes after it, which may be those of another ```json.
SearchFencedBlock(text) ==
    LET opens == {i \in 1..Len(text) : text[i] = FENCE_JSON}
    IN  IF opens = {} THEN [found |-> FALSE, group |-> <<>>]
        ELSE LET i == CHOOSE x \in opens : \A y \in opens : x <= y
                 closes == {j \in (i + 1)..Len(text) : IsFence(text[j])}
             IN  IF closes = {} THEN [found |-> FALSE, group |-> <<>>]
                 ELSE LET j == CHOOSE x \in closes : \A y \in closes : x <= y
                      IN  [found |-> TRUE, group |-> Strip(SubSeq(text, i + 1, j - 1))]

\* re.search(r'\{.*\}', text, re.DOTALL): [found, group0], the span from the
\* first opening brace to the last closing brace after it
SearchBraces(text) ==
    LET opens == {i \in 1..Len(text) : text[i] = LBRACE}
    IN  IF opens = {} THEN [found |-> FALSE, group |-> <<>>]
        ELSE LET i == CHOOSE x \in opens : \A y \in opens : x <= y
                 closes == {j \in (i + 1)..Len(text) : text[j] = RBRACE}
             IN  IF closes = {} THEN [found |-> FALSE, group |-> <<>>]
                 ELSE LET j == CHOOSE x \in closes : \A y \in closes : x >= y
                      IN  [found |-> TRUE, group |-> SubSeq(text, i, j)]

\* lines 313-316
ParseFailure(response_text) ==
    DictV(<<[k |-> K_ERROR, v |-> StrV(<<"Failed to parse JSON response">>)],
            [k |-> K_RAW, v |-> StrV(response_text)]>>)

\* `except json.JSONDecodeError` of lines 290, 299 and 308: the handler
\* takes the exception of a failed json.loads
Caught(loaded) == loaded.exc = "JSONDecodeError"

\* the extractor left by an exception no handler took
Raised(exc) == [value |-> NullV, by |-> "raise", exc |-> exc]

\* lines 287-316: [value, by, exc]; by names the strategy that returned, or
\* is "raise" where an exception leaves the extractor
_extract_json_from_response(response_text) ==
    LET whole == json_loads(Strip(response_text))
        fenced == SearchFencedBlock(response_text)
        fencedValue == json_loads(Strip(fenced.group))
        braces == SearchBraces(response_text)
        bracesValue == json_loads(braces.group)
    IN  IF whole.ok THEN [value |-> whole.v, by |-> "whole", exc |-> "none"]
        ELSE IF ~Caught(whole) THEN Raised(whole.exc)
        ELSE IF fenced.found /\ fencedValue.ok
          THEN [value |-> fencedValue.v, by |-> "fenced", exc |-> "none"]
        ELSE IF fenced.found /\ ~Caught(fencedValue) THEN Raised(fencedValue.exc)
        ELSE IF braces.found /\ bracesValue.ok
          THEN [value |-> bracesValue.v, by |-> "braces", exc |-> "none"]
        ELSE IF braces.found /\ ~Caught(bracesValue) THEN Raised(bracesValue.exc)
        ELSE [value |-> ParseFailure(response_text), by |-> "none", exc |-> "none"]

-----------------------------------------------------------------------------
(* The typed results of app/models/api.py.  A str field holds a text; a     *)
(* field a response type does not have is left empty.                       *)

Response(kind, d, text, issues, changes, source_language, target_language, conversation_id) ==
    [kind |-> kind, diffs |-> d, text |-> text, issues |-> issues, changes |-> changes,
     source_language |-> source_language, target_language |-> target_language,
     conversation_id |-> conversation_id]

CheckResponse(d, issues, corrected_text) ==
    Response("CheckResponse", d, corrected_text, issues, <<>>, "", "", <<>>)
PolishResponse(d, polished_text, changes) ==
    Response("PolishResponse", d, polished_text, <<>>, changes, "", "", <<>>)
TranslateResponse(d, translated_text, source_language, target_language) ==
    Response("TranslateResponse", d, translated_text, <<>>, <<>>,
             source_language, target_language, <<>>)
RewriteResponse(d, rewritten_text, conversation_id) ==
    Response("RewriteResponse", d, rewritten_text, <<>>, <<>>, "", "", conversation_id)

\* no response: the assembler has not returned one
NoResponse == Response("none", <<>>, <<>>, <<>>, <<>>, "", "", <<>>)

\* what a route answers: the status, the detail of an HTTPException, the
\* response model of a success
Answer(status, detail, body) == [status |-> status, detail |-> detail, body |-> body]
NoAnswer == Answer(0, "", NoResponse)

\* The Authorization header: absent (which is also what HTTPBearer hands on
\* for another scheme or an empty token), or a bearer token.  A token is
\* signed with the secret of the service or not, is expired or not, and its
\* payload has a username, none, or a null one.
NoCredentials == [header |-> FALSE, signed |-> FALSE, expired |-> FALSE, username |-> "<absent>"]
Bearer(signed, expired, username) ==
    [header |-> TRUE, signed |-> signed, expired |-> expired, username |-> username]

CheckIssue(message, suggestion, range, severity, category) ==
    [message |-> message, suggestion |-> suggestion, range |-> range,
     severity |-> severity, category |-> category]

\* models/api.py lines 80-84: the fields PolishChange requires
PolishChangeFields == {"type", "description", "original_text", "polished_text", "reason"}

\* PolishChange(**kw) validates: every required field is among the keywords
\* (a keyword that names no field is ignored)
PolishChangeAccepts(keywords) == PolishChangeFields \subseteq keywords

PolishChange(type, description, original_text_, polished_text_, reason) ==
    [type |-> type, description |-> description, original_text |-> original_text_,
     polished_text |-> polished_text_, reason |-> reason]

\* the fixed texts of lines 384, 385, 507 and 550, each one lexeme
MSG_CHECK_UNPARSABLE == <<"check: reply format abnormal, result not parsable">>
MSG_RETRY_OR_ADMIN == <<"retry or ask the administrator to check the AI service">>
MSG_TRANSLATE_UNAVAILABLE == <<"translate service unavailable, retry later">>
MSG_REWRITE_UNAVAILABLE == <<"rewrite service unavailable, retry later">>

-----------------------------------------------------------------------------
(* What the assemblers do with the extracted value *)

\* "error" in response_data: "yes", "no", or "raise" (TypeError: the value is
\* a number or None).  The assemblers also hold "raise" where the extractor
\* itself raised: both exceptions reach the same except block.  A dict is asked for the key, a list for an element
\* equal to the str, a str for the substring.
ErrorIn(v) ==
    IF v.t = "dict" THEN (IF HasKey(v, K_ERROR) THEN "yes" ELSE "no")
    ELSE IF v.t = "list"
      THEN (IF \E i \in 1..Len(v.l) : v.l[i] = StrV(<<ERROR_WORD>>) THEN "yes" ELSE "no")
    ELSE IF v.t = "str"
      THEN (IF \E i \in 1..Len(v.s) : v.s[i] = ERROR_WORD THEN "yes" ELSE "no")
    ELSE "raise"

\* `for x in v`: [ok, items]; ok is FALSE where iterating raises TypeError.
\* A dict yields its keys and a str its characters, each a str.
Iterate(v) ==
    IF v.t = "list" THEN [ok |-> TRUE, items |-> v.l]
    ELSE IF v.t = "dict"
      THEN [ok |-> TRUE, items |-> [i \in 1..Len(v.m) |-> StrV(<<v.m[i].k>>)]]
    ELSE IF v.t = "str"
      THEN [ok |-> TRUE, items |-> [i \in 1..Len(v.s) |-> StrV(<<v.s[i]>>)]]
    ELSE [ok |-> FALSE, items |-> <<>>]

IsStr(v) == v.t = "str"

\* models/api.py line 62, range: List[int]: the validation takes an int and
\* a str that spells one, which it converts
IsInt(v) == v.t = "num" \/ (v.t = "str" /\ v.s = <<NUMBER>>)
IntOf(v) == IF v.t = "num" THEN v.n ELSE 7

\* lines 398-407 for one issue_data: [ok, issue]; ok is FALSE where .get is
\* missing (issue_data is no dict) or CheckIssue rejects a field
MapIssue(issue_data, original_text) ==
    LET message == Get(issue_data, K_MESSAGE, StrV(<<>>))
        suggestion == Get(issue_data, K_SUGGESTION, StrV(<<>>))
        start == Get(issue_data, K_START, NumV(0))
        end == Get(issue_data, K_END, NumV(Len(original_text)))
        severity == Get(issue_data, K_SEVERITY, StrV(<<"info">>))
        category == Get(issue_data, K_TYPE, StrV(<<"general">>))
    IN  IF /\ issue_data.t = "dict"
           /\ IsStr(message) /\ IsStr(suggestion) /\ IsInt(start) /\ IsInt(end)
           /\ IsStr(severity) /\ IsStr(category)
          THEN [ok |-> TRUE,
                issue |-> CheckIssue(message.s, suggestion.s, <<IntOf(start), IntOf(end)>>,
                                     severity.s, category.s)]
          ELSE [ok |-> FALSE, issue |-> CheckIssue(<<>>, <<>>, <<0, 0>>, <<>>, <<>>)]

\* lines 397-407: the loop from item n on: [ok, issues]
RECURSIVE MapIssues(_, _, _)
MapIssues(items, n, original_text) ==
    IF n > Len(items) THEN [ok |-> TRUE, issues |-> <<>>]
    ELSE LET one == MapIssue(items[n], original_text)
             rest == MapIssues(items, n + 1, original_text)
         IN  IF one.ok /\ rest.ok
               THEN [ok |-> TRUE, issues |-> <<one.issue>> \o rest.issues]
               ELSE [ok |-> FALSE, issues |-> <<>>]

\* lines 468-474 for one change: [ok, change]
MapChange(change) ==
    LET type == Get(change, K_TYPE, StrV(<<"polish">>))
        description == Get(change, K_DESCRIPTION, StrV(<<>>))
        originalText == Get(change, K_ORIGINAL, StrV(<<>>))
        polishedText == Get(change, K_POLISHED, StrV(<<>>))
        reason == Get(change, K_REASON, StrV(<<>>))
    IN  IF /\ change.t = "dict"
           /\ PolishChangeAccepts({"type", "description", "original_text",
                                   "polished_text", "reason"})
           /\ IsStr(type) /\ IsStr(description) /\ IsStr(originalText)
           /\ IsStr(polishedText) /\ IsStr(reason)
          THEN [ok |-> TRUE,
                change |-> PolishChange(type.s, description.s, originalText.s,
                                        polishedText.s, reason.s)]
          ELSE [ok |-> FALSE, change |-> PolishChange(<<>>, <<>>, <<>>, <<>>, <<>>)]

\* lines 467-474: the loop from item n on: [ok, changes]
RECURSIVE MapChanges(_, _)
MapChanges(items, n) ==
    IF n > Len(items) THEN [ok |-> TRUE, changes |-> <<>>]
    ELSE LET one == MapChange(items[n])
             rest == MapChanges(items, n + 1)
         IN  IF one.ok /\ rest.ok
               THEN [ok |-> TRUE, changes |-> <<one.change>> \o rest.changes]
               ELSE [ok |-> FALSE, changes |-> <<>>]

\* An assembler's outcome: the response it returns and the path it took:
\* "ok" (a record was mapped), "failed" (the branch of "error" in
\* response_data), "except" (the except block).
Assembled(resp, path) == [resp |-> resp, path |-> path]

-----------------------------------------------------------------------------
(* _parse_check_response *)

\* an except block that raises again and returns no response
CheckBasicReraises(original_text) == NoResponse

\* lines 418-425
CheckBasic(original_text) ==
    CheckResponse(<<DiffSegment("equal", original_text)>>, <<>>, original_text)

\* a failure branch that reports no issue
CheckFailedSilently(original_text) ==
    CheckResponse(_calculate_diff(original_text, original_text, FALSE), <<>>, original_text)

\* lines 381-390 and 409-416
CheckFailed(original_text) ==
    CheckResponse(
        _calculate_diff(original_text, original_text, FALSE),
        <<CheckIssue(MSG_CHECK_UNPARSABLE, MSG_RETRY_OR_ADMIN,
                     <<0, Len(original_text)>>, <<"warning">>, <<"system">>)>>,
        original_text)

\* The text a response is built from must be a str: on any other value either
\* the matcher raises and the fallback's DiffSegment(value=...) is rejected,
\* or a slice of it is rejected by DiffSegment, or the response type rejects
\* it; the exception reaches the except block of the assembler.
\* the body of _parse_check_response after line `response_data =
\* self._extract_json_from_response(ai_response)`
CheckOf(extracted, ai_response, original_text) ==
    LET response_data == extracted.value
        isError == IF extracted.by = "raise" THEN "raise" ELSE ErrorIn(response_data)
        corrected_text == Get(response_data, K_CORRECTED, StrV(original_text))
        issueItems == Iterate(Get(response_data, K_ISSUES, ListV(<<>>)))
        mapped == MapIssues(issueItems.items, 1, original_text)
    IN  IF isError = "raise" THEN Assembled(CheckBasic(original_text), "except")
        ELSE IF isError = "yes" THEN Assembled(CheckFailed(original_text), "failed")
        ELSE IF response_data.t # "dict" THEN Assembled(CheckBasic(original_text), "except")
        ELSE IF ~issueItems.ok \/ ~mapped.ok \/ ~IsStr(corrected_text)
          THEN Assembled(CheckBasic(original_text), "except")
        ELSE Assembled(
                CheckResponse(_calculate_diff(original_text, corrected_text.s, FALSE),
                              mapped.issues, corrected_text.s),
                "ok")

_parse_check_response(ai_response, original_text) ==
    CheckOf(_extract_json_from_response(ai_response), ai_response, original_text)

-----------------------------------------------------------------------------
(* _parse_polish_response *)

\* lines 482-488; changes takes the default of models/api.py line 92
PolishBasic(original_text) ==
    PolishResponse(<<DiffSegment("equal", original_text)>>, original_text, <<>>)

\* lines 445-456: the keywords handed to PolishChange in the branch of
\* "error" in response_data
SyntheticChangeKeywords ==
    {"type", "description", "reason", "start", "end", "originalText",
     "polishedText", "confidence"}

\* a PolishChange instance held in a list: a pydantic model, which has no .get
ModelV == [t |-> "model", s |-> <<>>, n |-> 0, l |-> <<>>, m |-> <<>>]

\* the body of _parse_polish_response after line `response_data =
\* self._extract_json_from_response(ai_response)`
PolishOf(extracted, ai_response, original_text) ==
    LET response_data == extracted.value
        isError == IF extracted.by = "raise" THEN "raise" ELSE ErrorIn(response_data)
        polished_text == Get(response_data, K_POLISHED, StrV(original_text))
        changeItems == Iterate(Get(response_data, K_CHANGES, ListV(<<>>)))
        mapped == MapChanges(changeItems.items, 1)
        \* lines 445-456: changes = [PolishChange(...)], then the loop of
        \* lines 467-474 over it
        synthetic == MapChanges(<<ModelV>>, 1)
    IN  IF isError = "raise" THEN Assembled(PolishBasic(original_text), "except")
        ELSE IF isError = "yes" THEN
            IF ~PolishChangeAccepts(SyntheticChangeKeywords) \/ ~synthetic.ok
              THEN Assembled(PolishBasic(original_text), "except")
              ELSE Assembled(
                      PolishResponse(_calculate_diff(original_text, original_text, FALSE),
                                     original_text, synthetic.changes),
                      "failed")
        ELSE IF response_data.t # "dict" THEN Assembled(PolishBasic(original_text), "except")
        ELSE IF ~changeItems.ok \/ ~mapped.ok \/ ~IsStr(polished_text)
          THEN Assembled(PolishBasic(original_text), "except")
        ELSE Assembled(
                PolishResponse(_calculate_diff(original_text, polished_text.s, FALSE),
                               polished_text.s, mapped.changes),
                "ok")

_parse_polish_response(ai_response, original_text) ==
    PolishOf(_extract_json_from_response(ai_response), ai_response, original_text)

-----------------------------------------------------------------------------
(* _parse_translate_response *)

\* a response whose source language is always "auto"
LanguageAlwaysAuto(language) == "auto"

\* request.language or "auto"
LanguageOrAuto(language) == IF language = "<None>" \/ language = "" THEN "auto" ELSE language

\* an except block that answers the unavailability text over the diff of
\* the unchanged request text
TranslateBasicUnavailable(request) ==
    TranslateResponse(<<DiffSegment("equal", request.text)>>, MSG_TRANSLATE_UNAVAILABLE,
                      LanguageOrAuto(request.language), request.target_language)

\* lines 522-530
TranslateBasic(request) ==
    TranslateResponse(<<DiffSegment("equal", request.text)>>, request.text,
                      LanguageOrAuto(request.language), request.target_language)

\* a failure branch that hands the request text back as the translation
TranslateFailedEchoes(request) ==
    TranslateResponse(_calculate_diff(request.text, request.text, FALSE), request.text,
                      LanguageOrAuto(request.language), request.target_language)

\* lines 505-507 and 512-520
TranslateFailed(request) ==
    TranslateResponse(_calculate_diff(request.text, MSG_TRANSLATE_UNAVAILABLE, FALSE),
                      MSG_TRANSLATE_UNAVAILABLE,
                      LanguageOrAuto(request.language), request.target_language)

\* the body of _parse_translate_response after line `response_data =
\* self._extract_json_from_response(ai_response)`
TranslateOf(extracted, ai_response, request) ==
    LET response_data == extracted.value
        isError == IF extracted.by = "raise" THEN "raise" ELSE ErrorIn(response_data)
        translated == Get(response_data, K_TRANSLATED, StrV(Strip(ai_response)))
    IN  IF isError = "raise" THEN Assembled(TranslateBasic(request), "except")
        ELSE IF isError = "yes" THEN Assembled(TranslateFailed(request), "failed")
        ELSE IF response_data.t # "dict" \/ ~IsStr(translated)
          THEN Assembled(TranslateBasic(request), "except")
        ELSE Assembled(
                TranslateResponse(_calculate_diff(request.text, translated.s, FALSE),
                                  translated.s,
                                  LanguageOrAuto(request.language), request.target_language),
                "ok")

_parse_translate_response(ai_response, request) ==
    TranslateOf(_extract_json_from_response(ai_response), ai_response, request)

-----------------------------------------------------------------------------
(* _parse_rewrite_response *)

\* str(n) for the lengths the model reaches
DecStr(n) == IF n = 0 THEN "0" ELSE IF n = 1 THEN "1" ELSE IF n = 2 THEN "2" ELSE "3+"

\* line 559: f"{user_id}_{len(request.conversation_history)}"
ConversationId(uid, request) == <<uid, "_", DecStr(Len(request.conversation_history))>>

\* lines 567-574
RewriteBasic(request, uid) ==
    RewriteResponse(<<DiffSegment("equal", request.text)>>, request.text,
                    <<uid, "_", "error">>)

\* lines 548-550 and 555-565
RewriteFailed(request, uid) ==
    RewriteResponse(_calculate_diff(request.text, MSG_REWRITE_UNAVAILABLE, FALSE),
                    MSG_REWRITE_UNAVAILABLE, ConversationId(uid, request))

\* the body of _parse_rewrite_response after line `response_data =
\* self._extract_json_from_response(ai_response)`
RewriteOf(extracted, ai_response, request, uid) ==
    LET response_data == extracted.value
        isError == IF extracted.by = "raise" THEN "raise" ELSE ErrorIn(response_data)
        rewritten == Get(response_data, K_REWRITTEN, StrV(Strip(ai_response)))
    IN  IF isError = "raise" THEN Assembled(RewriteBasic(request, uid), "except")
        ELSE IF isError = "yes" THEN Assembled(RewriteFailed(request, uid), "failed")
        ELSE IF response_data.t # "dict" \/ ~IsStr(rewritten)
          THEN Assembled(RewriteBasic(request, uid), "except")
        ELSE Assembled(
                RewriteResponse(_calculate_diff(request.text, rewritten.s, FALSE),
                                rewritten.s, ConversationId(uid, request)),
                "ok")

_parse_rewrite_response(ai_response, request, uid) ==
    RewriteOf(_extract_json_from_response(ai_response), ai_response, request, uid)

-----------------------------------------------------------------------------
(* Requests and replies handed to the assemblers *)

Ops == {"check", "polish", "translate", "rewrite"}

ReqTexts == SeqsUpTo({"a", "b"}, MaxReqLen)

Request(text, language, target_language, conversation_history) ==
    [text |-> text, language |-> language, target_language |-> target_language,
     conversation_history |-> conversation_history]

Histories ==
    {<<>>, <<Turn("user", <<"a">>)>>, <<TurnWithout("role", "", <<"b">>)>>,
     <<Turn("user", <<"a">>), Turn("assistant", <<"b">>)>>}

\* models/api.py: language is Optional with default "auto"; target_language
\* and conversation_history belong to TranslateRequest and RewriteRequest
Requests(o) ==
    IF o = "translate"
      THEN {Request(t, l, "zh", <<>>) : t \in ReqTexts, l \in {"<None>", "", "en"}}
    ELSE IF o = "rewrite"
      THEN {Request(t, "auto", "", h) : t \in ReqTexts, h \in Histories}
    ELSE {Request(t, "auto", "", <<>>) : t \in ReqTexts}

Users == {"u1", "u2"}

\* JSON texts
Str(t) == <<QUOTE>> \o t \o <<QUOTE>>
Obj0 == <<LBRACE, RBRACE>>
Obj1(k, v) == <<LBRACE, k>> \o v \o <<RBRACE>>
Obj2(k1, v1, k2, v2) == <<LBRACE, k1>> \o v1 \o <<COMMA, k2>> \o v2 \o <<RBRACE>>
Arr0 == <<LBRACKET, RBRACKET>>
Arr1(v) == <<LBRACKET>> \o v \o <<RBRACKET>>
Arr2(v1, v2) == <<LBRACKET>> \o v1 \o <<COMMA>> \o v2 \o <<RBRACKET>>

FinalKeys == {K_CORRECTED, K_POLISHED, K_TRANSLATED, K_REWRITTEN}
FinalValues ==
    {Str(<<>>), Str(<<"a">>), Str(<<"b", "a">>), <<NULL>>, <<NUMBER>>, Arr1(Str(<<"a">>))}
IssuesValues ==
    {Arr0, Arr1(Obj0), Arr1(Obj1(K_START, <<NUMBER>>)),
     Arr1(Obj2(K_MESSAGE, Str(<<"a">>), K_TYPE, <<NULL>>)),
     Arr2(Obj0, Obj1(K_END, <<NUMBER>>)),
     Arr1(Obj2(K_START, Str(<<NUMBER>>), K_SEVERITY, Str(<<"a">>))),
     Arr1(<<NUMBER>>), Str(<<>>), Str(<<"a">>), <<NULL>>, Obj0}
ChangesValues ==
    {Arr0, Arr1(Obj0), Arr1(Obj1(K_REASON, Str(<<"a">>))),
     Arr1(Obj1(K_REASON, <<NUMBER>>)), Arr1(<<NUMBER>>), <<NULL>>}

\* JSON objects
RecordBodies ==
    {Obj1(k, v) : k \in FinalKeys, v \in FinalValues}
    \cup {Obj2(K_CORRECTED, Str(<<"a">>), K_ISSUES, i) : i \in IssuesValues}
    \cup {Obj2(K_POLISHED, Str(<<"a">>), K_CHANGES, c) : c \in ChangesValues}
    \cup {Obj0, Obj1(K_ERROR, Str(<<"a">>)), Obj1(K_ISSUES, Arr0),
          Obj2(K_ERROR, <<NULL>>, K_CORRECTED, Str(<<"a">>))}

\* JSON values that are no object
NonRecordBodies ==
    {Arr0, Arr1(Str(<<ERROR_WORD>>)), Arr1(Str(<<"a">>)), Str(<<"a">>),
     Str(<<"a", ERROR_WORD>>), <<NUMBER>>, <<NULL>>}

\* texts json.loads rejects, by JSONDecodeError or by RecursionError, and a
\* str holding a deep run of brackets
BrokenBodies ==
    {<<DEEP_OPEN>>, <<LBRACE, K_CORRECTED, DEEP_OPEN, RBRACE>>,
     Str(<<DEEP_OPEN>>), Obj0 \o <<DEEP_OPEN>>,
     <<LBRACE>>, <<LBRACE, K_CORRECTED, RBRACE>>,
     <<LBRACE, K_CORRECTED>> \o Str(<<"a">>) \o <<COMMA, RBRACE>>,
     Obj1(K_CORRECTED, Str(<<"a">>)) \o <<"b">> \o Obj0,
     <<QUOTE, "a">>, <<"a", WS, "b">>}

Bodies == RecordBodies \cup NonRecordBodies \cup BrokenBodies

\* a body as the model may send it: alone, between white space, inside
\* prose, inside a fenced block inside prose
Wrapped(b) ==
    {b,
     <<WS>> \o b \o <<WS>>,
     <<"a", WS>> \o b \o <<WS, "b">>,
     <<"a", FENCE_JSON, WS>> \o b \o <<WS, FENCE, "b">>}

ShortReplies == SeqsUpTo({"a", LBRACE, RBRACE, FENCE_JSON, FENCE, DEEP_OPEN}, MaxReplyLen)

\* replies to Check: prose, a fenced block holding correctedText X and an
\* empty issues list, prose.  The corrected text may itself hold a fence
\* and the prose may hold braces.
Proses == {<<>>, <<"a", WS>>, <<WS, "b">>, <<LBRACE, "a", RBRACE, WS>>}
CorrectedTexts == {<<>>, <<"a">>, <<"b", "a">>, <<FENCE>>, <<"a", FENCE, "b">>}
FencedReply(before, X, after) ==
    before \o <<FENCE_JSON, WS>> \o Obj2(K_CORRECTED, Str(X), K_ISSUES, Arr0)
           \o <<WS, FENCE>> \o after
FencedCheckReplies ==
    {[reply |-> FencedReply(b, x, a), X |-> x] :
        b \in Proses, x \in CorrectedTexts, a \in Proses}

Replies ==
    UNION {Wrapped(b) : b \in Bodies} \cup ShortReplies
    \cup {f.reply : f \in FencedCheckReplies}

-----------------------------------------------------------------------------
(* The assemblers applied to a reply *)

InitAsm ==
    /\ op \in Ops
    /\ req \in Requests(op)
    /\ caller \in Users
    /\ reply \in Replies
    /\ apc = "parse"
    /\ result = NoResponse
    /\ apath = "none"
    /\ answer = NoAnswer
    /\ credentials = NoCredentials

\* the assembler returns a.resp; the service method returns it to the route,
\* which returns it as the body of its answer (routers/api.py line 45)
Returns(a) ==
    /\ result' = a.resp
    /\ apath' = a.path
    /\ answer' = Answer(HTTP_OK, "", result')
    /\ apc' = "done"
    /\ UNCHANGED <<op, req, caller, reply, credentials>>
    /\ UNCHANGED <<callVars, diffVars, concVars>>

ParseCheck ==
    /\ apc = "parse" /\ op = "check"
    /\ Returns(_parse_check_response(reply, req.text))

ParsePolish ==
    /\ apc = "parse" /\ op = "polish"
    /\ Returns(_parse_polish_response(reply, req.text))

ParseTranslate ==
    /\ apc = "parse" /\ op = "translate"
    /\ Returns(_parse_translate_response(reply, req))

ParseRewrite ==
    /\ apc = "parse" /\ op = "rewrite"
    /\ Returns(_parse_rewrite_response(reply, req, caller))

\* the variables of the assemblers while another specification runs
IdleAsm ==
    /\ op = "none" /\ req = Request(<<>>, "auto", "", <<>>) /\ caller = "u1"
    /\ reply = <<>> /\ apc = "idle" /\ result = NoResponse /\ apath = "none"
    /\ answer = NoAnswer /\ credentials = NoCredentials

-----------------------------------------------------------------------------
(* One operation from the route to its answer: routers/api.py calls the     *)
(* service method, which calls _call_ai_service and then the assembler      *)

\* the status of line 50 of routers/api.py
HTTP_500_INTERNAL_SERVER_ERROR == 500

\* build_check_prompt, build_polish_prompt, build_translate_prompt,
\* build_rewrite_prompt: a text made from the request
Prompt(o, request) == <<"prompt", o>> \o request.text

\* the conversation_history each service method hands to _call_ai_service
HistoryArg(o, request) ==
    IF o = "rewrite" THEN SomeHistory(request.conversation_history) ELSE NoHistory

\* the detail of the HTTPException of each route
RouteDetail(o) ==
    CASE o = "check" -> "Text check failed"
      [] o = "polish" -> "Text polish failed"
      [] o = "translate" -> "Text translation failed"
      [] o = "rewrite" -> "Text rewrite failed"

\* a route that hands the text of the exception to the client
RouteFailureLeaks(o, e) == Answer(HTTP_500_INTERNAL_SERVER_ERROR, e.body, NoResponse)

\* the except block of a route: HTTPException(500, detail = ...)
RouteFailure(o, e) == Answer(HTTP_500_INTERNAL_SERVER_ERROR, RouteDetail(o), NoResponse)

OpRequests(o) == {r \in Requests(o) : Len(r.text) <= 1}

OpReplies ==
    {<<"a", WS, "b">>, <<NUMBER>>, <<DEEP_OPEN>>,
     Obj1(K_CORRECTED, Str(<<"a">>)), Obj1(K_REWRITTEN, Str(<<"b">>))}

OpOutcomes ==
    {Outcome("transport", 0, "timeout"), Outcome("status", 500, "body1"),
     Outcome("status", 429, "body2")}
    \cup {Outcome("malformed", HTTP_OK, k) : k \in MalformedKinds}
    \cup {Outcome("ok", HTTP_OK, r) : r \in OpReplies}

InitOp ==
    \E o \in Ops : \E r \in OpRequests(o) : \E u \in Users :
        /\ op = o /\ req = r /\ caller = u
        /\ reply = <<>> /\ apc = "wait" /\ result = NoResponse /\ apath = "none"
        /\ answer = NoAnswer /\ credentials = NoCredentials
        /\ CallOf(Prompt(o, r), HistoryArg(o, r))

\* lines 60, 90, 126, 160: _call_ai_service returned and the service method
\* holds the reply in ai_response
GatewayReturns ==
    /\ pc = "returned" /\ apc = "wait"
    /\ reply' = ret
    /\ apc' = "parse"
    /\ UNCHANGED <<op, req, caller, result, apath, answer, credentials>>
    /\ UNCHANGED <<callVars, diffVars, concVars>>

\* _call_ai_service raised: the service method logs and raises again, the
\* except block of the route answers
ServiceRaises ==
    /\ pc = "raised" /\ apc = "wait"
    /\ answer' = RouteFailure(op, err)
    /\ apc' = "failed"
    /\ UNCHANGED <<op, req, caller, reply, result, apath, credentials>>
    /\ UNCHANGED <<callVars, diffVars, concVars>>

-----------------------------------------------------------------------------
(* One HTTP request to a route: the dependency require_auth                 *)
(* (app/core/dependencies.py) runs before the body of the route             *)

\* the status of lines 31, 45, 52, 62 and 91 of dependencies.py
HTTP_401_UNAUTHORIZED == 401

\* the payload of a token, None where verify_token returns None
NoPayload == [none |-> TRUE, username |-> "<absent>"]
Payload(username) == [none |-> FALSE, username |-> username]

\* a verification that does not look at the expiry of the token
verify_tokenIgnoresExpiry(token) ==
    IF token.signed THEN Payload(token.username) ELSE NoPayload

\* core/security.py lines 47-85: jwt.decode rejects a token not signed with
\* the secret and an expired one; the payload otherwise.  (Where the
\* verification raises instead, the caller's except block answers as for
\* None.)
verify_token(token) ==
    IF token.signed /\ ~token.expired THEN Payload(token.username) ELSE NoPayload

\* dependencies.py lines 73-81 and models/auth.py lines 38, 46-49:
\* UserInfo(username = payload.get("username", ""), ...) and its id; ok is
\* FALSE where UserInfo rejects the payload
UserInfo(payload) ==
    [ok |-> payload.username # "<null>",
     id |-> IF payload.username = "<absent>" THEN "" ELSE payload.username]

Denied(detail) == [ok |-> FALSE, detail |-> detail, id |-> ""]
Granted(id) == [ok |-> TRUE, detail |-> "", id |-> id]

\* dependencies.py lines 14-94 (require_auth, lines 116-126, returns its
\* result): the HTTPException of line 43, raised inside the try, is caught
\* by line 48 and raised again with the detail of line 52
get_current_user(c) ==
    IF ~c.header THEN Denied("Authorization header required")
    ELSE IF verify_token(c).none THEN Denied("Token verification failed")
    ELSE IF ~UserInfo(verify_token(c)).ok THEN Denied("Invalid token payload")
    ELSE Granted(UserInfo(verify_token(c)).id)

Credentials ==
    {NoCredentials}
    \cup {Bearer(sg, ex, u) : sg \in BOOLEAN, ex \in BOOLEAN,
                              u \in Users \cup {"<absent>", "<null>"}}

\* no caller identity yet
NoCaller == "<none>"

\* an HTTP request has arrived: nothing of the operation has run
InitRoute ==
    \E o \in Ops : \E r \in OpRequests(o) : \E c \in Credentials :
        /\ op = o /\ req = r /\ caller = NoCaller /\ credentials = c
        /\ reply = <<>> /\ apc = "auth" /\ result = NoResponse /\ apath = "none"
        /\ answer = NoAnswer
        /\ config = Settings
        /\ max_retries \in -1..MaxRetriesCfg
        /\ pc = "route" /\ attempt = 0 /\ outcomes = <<>> /\ log = <<>>
        /\ ret = NoReply /\ err = NoError
        /\ prompt = <<>> /\ history = NoHistory /\ messages = <<>> /\ sent = <<>>

\* the dependency raises HTTPException(401): the body of the route does not run
Unauthorized ==
    /\ apc = "auth"
    /\ ~get_current_user(credentials).ok
    /\ answer' = Answer(HTTP_401_UNAUTHORIZED, get_current_user(credentials).detail,
                        NoResponse)
    /\ apc' = "unauthorized"
    /\ UNCHANGED <<op, req, caller, reply, result, apath, credentials>>
    /\ UNCHANGED <<callVars, diffVars, concVars>>

\* the dependency returns the user: the route calls the service method with
\* current_user.id (routers/api.py lines 43, 73, 103, 133), which builds
\* the prompt and calls _call_ai_service
Authorized ==
    /\ apc = "auth"
    /\ get_current_user(credentials).ok
    /\ caller' = get_current_user(credentials).id
    /\ prompt' = Prompt(op, req)
    /\ history' = HistoryArg(op, req)
    /\ pc' = "start"
    /\ apc' = "wait"
    /\ UNCHANGED <<op, req, reply, result, apath, answer, credentials>>
    /\ UNCHANGED <<config, max_retries, attempt, outcomes, log, ret, err, messages, sent>>
    /\ UNCHANGED <<diffVars, concVars>>

-----------------------------------------------------------------------------
(* Specifications *)

Init == InitCall /\ IdleDiff /\ IdleAsm /\ IdleConc
Next ==
    \/ BuildMessages
    \/ \E o \in Outcomes : Post(o)
    \/ Backoff
    \/ LoopExit
Spec == Init /\ [][Next]_vars

\* The call under the scheduling the event loop gives it: an awaited request
\* ends (reply, error status, transport error or the timeout of line 218) and
\* an awaited sleep elapses, after which the coroutine is resumed; between
\* two awaits it runs on.  So a step that is possible is eventually taken.
SpecLive == Spec /\ WF_vars(Next)

InitD == InitDiff /\ IdleCall /\ IdleAsm /\ IdleConc
NextD == CalculateDiff \/ CalculateDiffFallback
SpecDiff == InitD /\ [][NextD]_vars

InitA == InitAsm /\ IdleCall /\ IdleDiff /\ IdleConc
NextA == ParseCheck \/ ParsePolish \/ ParseTranslate \/ ParseRewrite
SpecAsm == InitA /\ [][NextA]_vars

InitO == InitOp /\ IdleDiff /\ IdleConc
NextO ==
    \/ BuildMessages
    \/ \E o \in OpOutcomes : Post(o)
    \/ Backoff
    \/ LoopExit
    \/ GatewayReturns
    \/ ParseCheck
    \/ ParsePolish
    \/ ParseTranslate
    \/ ParseRewrite
    \/ ServiceRaises
SpecOp == InitO /\ [][NextO]_vars

InitR == InitRoute /\ IdleDiff /\ IdleConc
NextR ==
    \/ Unauthorized
    \/ Authorized
    \/ BuildMessages
    \/ \E o \in OpOutcomes : Post(o)
    \/ Backoff
    \/ LoopExit
    \/ GatewayReturns
    \/ ParseCheck
    \/ ParsePolish
    \/ ParseTranslate
    \/ ParseRewrite
    \/ ServiceRaises
SpecRoute == InitR /\ [][NextR]_vars

InitC == InitConc /\ IdleDiff /\ IdleAsm
NextC ==
    \/ \E t \in TaskIds : TaskBuild(t)
    \/ \E t \in TaskIds : TaskSend(t)
    \/ \E t \in TaskIds : \E o \in ConcOutcomes : TaskReceive(t, o)
    \/ \E t \in TaskIds : TaskWake(t)
    \/ \E t \in TaskIds : TaskLoopExit(t)
SpecConc == InitC /\ [][NextC]_vars

-----------------------------------------------------------------------------
(* The gateway call: claims checked under Spec *)

Posts == SelectSeq(log, LAMBDA e : e.ev = "post")
Sleeps == SelectSeq(log, LAMBDA e : e.ev = "sleep")
Retryable(o) == o.kind \in {"transport", "status"}
AllFailed == \A i \in 1..Len(outcomes) : Retryable(outcomes[i])
LastOutcome == outcomes[Len(outcomes)]
CallEnded == pc \in {"returned", "raised"}

\* the error a call carries when its last attempt o failed
ErrorOf(o) ==
    IF o.kind = "status" THEN [kind |-> "status", status |-> o.status, body |-> o.body]
    ELSE [kind |-> "transport", status |-> 0, body |-> o.body]

\* C1: with max_retries >= 1 and every attempt failing by a transport error
\* or a status other than 200, the call sends one request per attempt
\* (attempts 0, 1, ... in order), never more than max_retries requests, never
\* returns, and once max_retries requests are sent it has failed with the
\* status and body, or the transport message, of the last attempt; it fails
\* no earlier.
C1_ExactlyMaxRetriesAttempts ==
    (max_retries >= 1 /\ AllFailed) =>
        /\ Len(Posts) = Len(outcomes)
        /\ \A i \in 1..Len(Posts) : Posts[i].n = i - 1
        /\ Len(Posts) <= max_retries
        /\ pc # "returned"
        /\ (Len(Posts) = max_retries) <=> (pc = "raised")
        /\ pc = "raised" => err = ErrorOf(LastOutcome)

\* C1 witness: three attempts, a mix of transport errors and error statuses,
\* the call has failed
C1_Witness ==
    /\ max_retries = 3 /\ pc = "raised" /\ AllFailed /\ Len(outcomes) = 3
    /\ outcomes[1].kind = "transport" /\ outcomes[2].kind = "status"
    /\ outcomes[3].kind = "status" /\ err.kind = "status"

\* C2: when the first k attempts fail retryably and attempt k+1 gets a
\* well-formed success envelope, the call has returned that envelope's
\* content, k+1 requests were sent (attempts 0..k, k < max_retries), and the
\* call takes no further step.
C2_ReturnsFirstSuccess ==
    (outcomes # <<>> /\ LastOutcome.kind = "ok") =>
        /\ pc = "returned"
        /\ ret = LastOutcome.body
        /\ \A i \in 1..(Len(outcomes) - 1) : Retryable(outcomes[i])
        /\ Len(Posts) = Len(outcomes)
        /\ \A i \in 1..Len(Posts) : Posts[i].n = i - 1
        /\ Len(Posts) <= max_retries
        /\ log[Len(log)] = PostEvent(Len(outcomes) - 1)
        /\ ~ENABLED Next

\* C2 witness: max_retries = 3, two failures, then the reply
C2_Witness ==
    /\ max_retries = 3 /\ pc = "returned" /\ Len(outcomes) = 3 /\ Len(Posts) = 3
    /\ Retryable(outcomes[1]) /\ Retryable(outcomes[2]) /\ ret = outcomes[3].body

\* C3: the log of a call is post(0), sleep(1), post(1), sleep(2), post(2), ...:
\* the wait after the failed attempt i is 2^i; a wait follows only a failed
\* attempt i < max_retries - 1; nothing precedes the first request, and no
\* wait follows the attempt that ended the call.
C3_BackoffSchedule ==
    /\ \A i \in 1..Len(log) :
          IF i % 2 = 1
            THEN log[i] = PostEvent((i - 1) \div 2)
            ELSE /\ log[i] = SleepEvent(2^((i - 2) \div 2))
                 /\ Retryable(outcomes[i \div 2])
                 /\ (i - 2) \div 2 < max_retries - 1
    /\ \A i \in 1..(Len(Sleeps) - 1) : Sleeps[i].n < Sleeps[i + 1].n
    /\ CallEnded /\ log # <<>> => log[Len(log)].ev = "post"
    /\ pc = "loop" /\ attempt > 0 /\ attempt < max_retries =>
          log[Len(log)] = SleepEvent(2^(attempt - 1))

\* C3 witness: the waits 1 and 2 happened before a third attempt
C3_Witness ==
    /\ Len(Sleeps) = 2 /\ Sleeps[1].n = 1 /\ Sleeps[2].n = 2
    /\ Len(Posts) = 3 /\ CallEnded

\* C4: a 200 answer with a malformed envelope ends the call at that attempt
\* with the exception raised: no wait and no request follow it, whatever
\* number of attempts remain.
C4_MalformedIsTerminal ==
    /\ \A i \in 1..(Len(outcomes) - 1) : outcomes[i].kind # "malformed"
    /\ (outcomes # <<>> /\ LastOutcome.kind = "malformed") =>
          /\ pc = "raised"
          /\ err = [kind |-> "malformed", status |-> HTTP_OK, body |-> LastOutcome.body]
          /\ log[Len(log)] = PostEvent(Len(outcomes) - 1)
          /\ ~ENABLED Next

\* C4 witness: the first of three attempts got a malformed envelope
C4_Witness ==
    /\ max_retries = 3 /\ Len(outcomes) = 1 /\ outcomes[1].kind = "malformed"
    /\ pc = "raised" /\ Len(log) = 1

-----------------------------------------------------------------------------
(* _calculate_diff: claims checked under SpecDiff *)

\* the texts of the segments of the given kinds, concatenated in order
RECURSIVE ConcatKinds(_, _, _)
ConcatKinds(segs, kinds, n) ==
    IF n > Len(segs) THEN <<>>
    ELSE (IF segs[n].type \in kinds THEN segs[n].value ELSE <<>>)
         \o ConcatKinds(segs, kinds, n + 1)

OriginalSide(segs) == ConcatKinds(segs, {"equal", "delete"}, 1)
ModifiedSide(segs) == ConcatKinds(segs, {"equal", "insert"}, 1)
KindsOf(segs) == {segs[i].type : i \in 1..Len(segs)}

\* C8: for every pair of texts, on the opcode path and on the fallback path,
\* the Equal and Delete segments concatenate to original and the Equal and
\* Insert segments concatenate to modified.
C8_DiffRoundTrip ==
    dpc \in {"done", "fallback"} =>
        /\ OriginalSide(diffs) = original
        /\ ModifiedSide(diffs) = modified

\* C8 witness: a diff through the opcodes with segments of all three kinds
C8_Witness ==
    /\ dpc = "done" /\ KindsOf(diffs) = {"equal", "delete", "insert"}
    /\ original # modified

\* C9: no two adjacent segments of a returned diff have the same kind.
C9_NoAdjacentSameKind ==
    dpc \in {"done", "fallback"} =>
        \A i \in 1..(Len(diffs) - 1) : diffs[i].type # diffs[i + 1].type

\* C9 witness: a diff of three segments or more, with an equal run of two elements
C9_Witness ==
    /\ dpc = "done" /\ Len(diffs) >= 3
    /\ \E i \in 1..Len(diffs) : diffs[i].type = "equal" /\ Len(diffs[i].value) >= 2

-----------------------------------------------------------------------------
(* The assemblers: claims checked under SpecAsm *)

\* no strategy of the extractor parsed the reply: it returned lines 313-316
ExtractionFailed == _extract_json_from_response(reply).by = "none"

C6_PolishOnExtractionFailure ==
    (apc = "done" /\ op = "polish" /\ ExtractionFailed) =>
        /\ result.text = req.text
        /\ Len(result.changes) = 1
        /\ result.changes[1].type = <<"system">>

C10_DiffsOfRequestAndFinalText ==
    apc = "done" =>
        /\ OriginalSide(result.diffs) = req.text
        /\ ModifiedSide(result.diffs) = result.text

\* C10 witness: a record was mapped, the final text differs from the request
\* text and from the reply, and the diff has more than one segment
C10_Witness ==
    /\ apc = "done" /\ apath = "ok" /\ result.text # req.text
    /\ result.text # Strip(reply) /\ Len(result.diffs) >= 2

-----------------------------------------------------------------------------
(* The extractor: claims checked under SpecAsm, where each assembler calls  *)
(* it on the reply                                                          *)

Extracted == _extract_json_from_response(reply)

\* C11: for every reply text the extractor returns a value: no exception
\* raised while a strategy is tried leaves the extractor.
C11_ExtractorNeverRaises ==
    apc = "done" => Extracted.by # "raise"

\* C12: for every reply text the value the extractor returns is a mapping: a
\* parsed record, or the failure shape with the marker and the unmodified
\* reply; never a list, a str, a number or null.
C12_ExtractorReturnsMapping ==
    (apc = "done" /\ Extracted.by # "raise") =>
        /\ Extracted.value.t = "dict"
        /\ Extracted.by = "none" =>
              /\ HasKey(Extracted.value, K_ERROR)
              /\ Get(Extracted.value, K_RAW, NullV) = StrV(reply)

\* the candidate of each strategy and what parsing it gives
WholeCandidate == json_loads(Strip(reply))
FencedCandidate ==
    IF SearchFencedBlock(reply).found
      THEN json_loads(Strip(SearchFencedBlock(reply).group))
      ELSE [ok |-> FALSE, v |-> NullV, exc |-> "no candidate"]
BracesCandidate ==
    IF SearchBraces(reply).found
      THEN json_loads(SearchBraces(reply).group)
      ELSE [ok |-> FALSE, v |-> NullV, exc |-> "no candidate"]

\* C13: the extractor returns the parse of the first strategy that succeeds in
\* the order whole text, first fenced block, span of braces; a strategy whose
\* candidate does not parse falls through to the next; the failure shape is
\* returned only when all three failed.
C13_FallbackOrder ==
    apc = "done" =>
        /\ WholeCandidate.ok =>
              Extracted.by = "whole" /\ Extracted.value = WholeCandidate.v
        /\ (~WholeCandidate.ok /\ FencedCandidate.ok) =>
              Extracted.by = "fenced" /\ Extracted.value = FencedCandidate.v
        /\ (~WholeCandidate.ok /\ ~FencedCandidate.ok /\ BracesCandidate.ok) =>
              Extracted.by = "braces" /\ Extracted.value = BracesCandidate.v
        /\ (~WholeCandidate.ok /\ ~FencedCandidate.ok /\ ~BracesCandidate.ok) =>
              Extracted.by = "none" /\ Extracted.value = ParseFailure(reply)

-----------------------------------------------------------------------------
(* Rewrite's conversation identifier: checked under SpecAsm *)

\* C14: two Rewrite assemblies with the same user_id and the same length of
\* conversation_history return the same conversation_id, whatever the request
\* text, the history contents and the reply are.
C14_ConversationIdDeterministic ==
    (apc = "done" /\ op = "rewrite") =>
        \A request \in Requests("rewrite"), ai_response \in Replies :
            Len(request.conversation_history) = Len(req.conversation_history) =>
                _parse_rewrite_response(ai_response, request, caller).resp.conversation_id
                    = result.conversation_id

-----------------------------------------------------------------------------
(* The assemblers never raise: checked under SpecAsm *)

IsText(t) == t \in Seq(STRING)

ResponseKind(o) ==
    CASE o = "check" -> "CheckResponse"
      [] o = "polish" -> "PolishResponse"
      [] o = "translate" -> "TranslateResponse"
      [] o = "rewrite" -> "RewriteResponse"

\* the fields of a response validate against the types of models/api.py
WellFormed(resp, o) ==
    /\ resp.kind = ResponseKind(o)
    /\ IsText(resp.text)
    /\ \A i \in 1..Len(resp.diffs) :
          resp.diffs[i].type \in {"equal", "delete", "insert"} /\ IsText(resp.diffs[i].value)
    /\ \A i \in 1..Len(resp.issues) :
          /\ IsText(resp.issues[i].message) /\ IsText(resp.issues[i].suggestion)
          /\ IsText(resp.issues[i].severity) /\ IsText(resp.issues[i].category)
          /\ resp.issues[i].range \in Int \X Int
    /\ \A i \in 1..Len(resp.changes) :
          /\ IsText(resp.changes[i].type) /\ IsText(resp.changes[i].description)
          /\ IsText(resp.changes[i].original_text) /\ IsText(resp.changes[i].polished_text)
          /\ IsText(resp.changes[i].reason)
    /\ o = "translate" => resp.source_language \in STRING /\ resp.target_language \in STRING
    /\ o = "rewrite" => IsText(resp.conversation_id)

\* C15: for every reply text and every valid request each assembler returns
\* a well-formed response of its type: an extraction failure and an exception
\* raised while the fields are mapped end in a degraded response, never in
\* an exception that reaches the caller.
C15_AssemblersNeverRaise ==
    apc = "done" =>
        /\ apath \in {"ok", "failed", "except"}
        /\ WellFormed(result, op)

\* C15 witness: Check of a non-empty text whose reply parses to a record with
\* a field that cannot be mapped; the except block answered
C15_Witness ==
    /\ apc = "done" /\ op = "check" /\ apath = "except" /\ req.text = <<"a", "b">>
    /\ Extracted.by = "whole" /\ Extracted.value.t = "dict"
    /\ result = CheckBasic(req.text)

\* C16: when an exception is raised while the fields are mapped, the final
\* text is the one of the failure branch: the original text for Check and
\* Polish, the fixed unavailability text for Translate and Rewrite.
C16_AssemblyFailureFallbackText ==
    (apc = "done" /\ apath = "except") =>
        result.text = CASE op \in {"check", "polish"} -> req.text
                        [] op = "translate" -> MSG_TRANSLATE_UNAVAILABLE
                        [] op = "rewrite" -> MSG_REWRITE_UNAVAILABLE

-----------------------------------------------------------------------------
(* One operation end to end: claims checked under SpecOp *)

\* C17: when the gateway call fails terminally (retries exhausted on a
\* transport error or an error status, or a malformed envelope) no
\* extraction and no assembly runs and no typed result exists; the route
\* answers status 500 with its fixed detail, which carries neither the
\* status nor the body of the endpoint.
C17_GatewayFailureIsOpaque ==
    pc = "raised" =>
        /\ apc \in {"wait", "failed"}
        /\ reply = <<>> /\ result = NoResponse /\ apath = "none"
        /\ apc = "failed" =>
              /\ answer.status = 500
              /\ answer.detail \in {"Text check failed", "Text polish failed",
                                    "Text translation failed", "Text rewrite failed"}
              /\ answer.detail = RouteDetail(op)
              /\ answer.body = NoResponse

\* C17 witness: three attempts answered by error statuses, then the 500
C17_Witness ==
    /\ pc = "raised" /\ apc = "failed" /\ max_retries = 3 /\ Len(outcomes) = 3
    /\ err.kind = "status" /\ answer.status = 500

\* C19: the list of messages is the turns of the caller's history in their
\* order followed by one turn carrying the prompt, every request of the call
\* carries that list, and an operation other than Rewrite sends one message.
C19_MessageList ==
    /\ op = "rewrite" => history = SomeHistory(req.conversation_history)
    /\ \A n \in 1..Len(sent) :
          /\ Len(sent[n]) = Len(history.turns) + 1
          /\ \A i \in 1..Len(history.turns) :
                /\ sent[n][i].role = MsgGet(history.turns[i], "role", "user")
                /\ sent[n][i].content = MsgGet(history.turns[i], "content", <<>>)
          /\ sent[n][Len(sent[n])] = Message("user", prompt)
          /\ op # "rewrite" => Len(sent[n]) = 1

\* C19 witness: a Rewrite with two prior turns whose call sent three requests
C19_Witness ==
    /\ op = "rewrite" /\ Len(req.conversation_history) = 2 /\ Len(sent) = 3
    /\ Len(sent[3]) = 3

-----------------------------------------------------------------------------
(* Check on a fenced reply: checked under SpecAsm *)

\* C18: for every original text and every X, Check on a reply that is prose
\* around a fenced block holding {"correctedText": X, "issues": []} returns
\* corrected_text = X, no issue, and the diff of (original text, X).
C18_CheckOnFencedReply ==
    (apc = "done" /\ op = "check") =>
        \A f \in FencedCheckReplies :
            f.reply = reply =>
                /\ result.text = f.X
                /\ result.issues = <<>>
                /\ result.diffs = _calculate_diff(req.text, f.X, FALSE)

-----------------------------------------------------------------------------
(* Concurrent requests: claims checked under SpecConc *)

\* what a call with n retries does alone when the endpoint answers outs, from
\* attempt i on with the log lg: its position, log, result and error
RECURSIVE Alone(_, _, _, _)
Alone(n, outs, i, lg) ==
    IF i >= n
      THEN [pc |-> "raised", log |-> lg, ret |-> NoReply,
            err |-> [kind |-> "exhausted", status |-> 0, body |-> ""]]
    ELSE IF Len(outs) <= i
      THEN [pc |-> "running", log |-> Append(lg, PostEvent(i)), ret |-> NoReply, err |-> NoError]
    ELSE LET o == outs[i + 1]
             sentLog == Append(lg, PostEvent(i))
         IN  IF o.kind = "ok"
               THEN [pc |-> "returned", log |-> sentLog, ret |-> o.body, err |-> NoError]
             ELSE IF o.kind = "malformed" \/ i = n - 1
               THEN [pc |-> "raised", log |-> sentLog, ret |-> NoReply,
                     err |-> [kind |-> o.kind, status |-> o.status, body |-> o.body]]
             ELSE Alone(n, outs, i + 1, Append(sentLog, SleepEvent(2 ^ i)))

Ended(t) == tasks[t].pc \in {"returned", "raised"}

\* a request that has ended did what it does alone on its own answers
AsAlone(t) ==
    LET a == Alone(max_retries, tasks[t].outcomes, 0, <<>>)
    IN  /\ tasks[t].pc = a.pc
        /\ tasks[t].log = a.log
        /\ tasks[t].ret = a.ret
        /\ tasks[t].err = a.err

\* a request that has not ended can take its next step whatever the others
\* wait for
NeverBlocked(t) == ~Ended(t) => ENABLED TaskNext(t)

\* C20: in every interleaving of the concurrent requests each request sends
\* the requests, waits the delays and ends with the result it would alone on
\* the same endpoint answers; no step writes the shared configuration or a
\* caller's history; a request in its backoff wait or awaiting the network
\* blocks no other request.
C20_RequestIndependence ==
    /\ [](\A t \in TaskIds : (Ended(t) => AsAlone(t)) /\ NeverBlocked(t))
    /\ [][/\ config' = config
          /\ max_retries' = max_retries
          /\ \A t \in TaskIds : tasks'[t].history = tasks[t].history]_vars

\* C20 witness: one request ended after three attempts and two waits while
\* the other, started with it, is in its first backoff wait
C20_Witness ==
    /\ tasks # <<>>
    /\ tasks["t1"].pc = "raised" /\ Len(tasks["t1"].outcomes) = 3
    /\ Len(SelectSeq(tasks["t1"].log, LAMBDA e : e.ev = "sleep")) = 2
    /\ tasks["t2"].pc = "sleeping" /\ tasks["t2"].attempt = 0

-----------------------------------------------------------------------------
(* Check on a parsed record: checked under SpecAsm *)

\* the elements of the issues field of a record, [] where the key is absent
IssuesField(record) == Iterate(Get(record, K_ISSUES, ListV(<<>>))).items

\* the entry made of one element: a key the element has gives its value, a
\* key it lacks gives the default
EntryOf(entry, e, n) ==
    /\ entry.message = (IF HasKey(e, K_MESSAGE) THEN Get(e, K_MESSAGE, NullV).s ELSE <<>>)
    /\ entry.suggestion =
          (IF HasKey(e, K_SUGGESTION) THEN Get(e, K_SUGGESTION, NullV).s ELSE <<>>)
    /\ entry.range[1] = (IF HasKey(e, K_START) THEN IntOf(Get(e, K_START, NullV)) ELSE 0)
    /\ entry.range[2] = (IF HasKey(e, K_END) THEN IntOf(Get(e, K_END, NullV)) ELSE n)
    /\ Len(entry.range) = 2
    /\ entry.severity =
          (IF HasKey(e, K_SEVERITY) THEN Get(e, K_SEVERITY, NullV).s ELSE <<"info">>)
    /\ entry.category = (IF HasKey(e, K_TYPE) THEN Get(e, K_TYPE, NullV).s ELSE <<"general">>)

CheckOfRecord(record, resp, original_text) ==
    /\ resp.text = (IF HasKey(record, K_CORRECTED) THEN Get(record, K_CORRECTED, NullV).s
                    ELSE original_text)
    /\ Len(resp.issues) = Len(IssuesField(record))
    /\ \A i \in 1..Len(resp.issues) :
          EntryOf(resp.issues[i], IssuesField(record)[i], Len(original_text))

\* a record was parsed from the reply by one of the three strategies
ParsedRecord == Extracted.by \in {"whole", "fenced", "braces"} /\ Extracted.value.t = "dict"

\* C21: Check on a parsed record: the final text is the record's
\* correctedText, or the original text where the key is absent; issues holds
\* one entry per element of the record's issues field in the same order, a
\* missing key replaced by its default: start 0, end len(original text),
\* severity "info", category "general", message and suggestion empty.
C21_CheckOnRecord ==
    (apc = "done" /\ op = "check" /\ ParsedRecord) =>
        CheckOfRecord(Extracted.value, result, req.text)

-----------------------------------------------------------------------------
(* The degradation branch: checked under SpecAsm *)

\* C22: an assembler takes the degradation branch of a parse failure exactly
\* when no strategy of the extractor parsed the reply; a reply from which a
\* record was parsed, whatever its keys, is never handled as a parse failure.
C22_DegradationIffExtractionFailed ==
    apc = "done" => (apath = "failed" <=> Extracted.by = "none")

-----------------------------------------------------------------------------
(* Translate and Rewrite on a record without the expected field: checked    *)
(* under SpecAsm                                                            *)

ExpectedKey == IF op = "translate" THEN K_TRANSLATED ELSE K_REWRITTEN
UnavailableText == IF op = "translate" THEN MSG_TRANSLATE_UNAVAILABLE ELSE MSG_REWRITE_UNAVAILABLE

\* C23: Translate and Rewrite on a parsed record that lacks translatedText /
\* rewrittenText: the final text is the whole reply with the surrounding
\* white space stripped, not the fixed unavailability text, and diffs is the
\* diff of the request text and that stripped reply.
C23_RawReplyWhenFieldAbsent ==
    (/\ apc = "done" /\ op \in {"translate", "rewrite"}
     /\ ParsedRecord /\ ~HasKey(Extracted.value, ExpectedKey)) =>
        /\ result.text = Strip(reply)
        /\ result.text # UnavailableText
        /\ result.diffs = _calculate_diff(req.text, Strip(reply), FALSE)

-----------------------------------------------------------------------------
(* The order of a replacement: checked under SpecDiff *)

\* the opcodes of the matcher that replace a span of original by a span of modified
ReplaceOpcodes ==
    {n \in 1..Len(get_opcodes(original, modified)) :
        get_opcodes(original, modified)[n].tag = "replace"}

\* the returned segments show opcode oc as a Delete immediately before an Insert
DeleteThenInsert(oc) ==
    \E i \in 1..(Len(diffs) - 1) :
        /\ diffs[i] = DiffSegment("delete", Slice(original, oc.i1, oc.i2))
        /\ diffs[i + 1] = DiffSegment("insert", Slice(modified, oc.j1, oc.j2))

\* C24: in every sequence _calculate_diff returns, through the opcodes or
\* through the except block, an Insert segment is never immediately followed
\* by a Delete segment, and every replacement is a Delete segment
\* immediately before an Insert segment.
C24_DeleteBeforeInsert ==
    /\ dpc \in {"done", "fallback"} =>
          \A i \in 1..(Len(diffs) - 1) :
              ~(diffs[i].type = "insert" /\ diffs[i + 1].type = "delete")
    /\ dpc = "done" =>
          \A n \in ReplaceOpcodes : DeleteThenInsert(get_opcodes(original, modified)[n])
    /\ dpc = "fallback" =>
          diffs = <<DiffSegment("delete", original), DiffSegment("insert", modified)>>

\* C24 witness: a replacement between two equal runs, returned as Equal,
\* Delete, Insert, Equal
C24_Witness ==
    /\ dpc = "done" /\ ReplaceOpcodes # {}
    /\ original = <<"a", "b", "a">> /\ modified = <<"a", "c", "a">>
    /\ diffs = <<DiffSegment("equal", <<"a">>), DiffSegment("delete", <<"b">>),
                 DiffSegment("insert", <<"c">>), DiffSegment("equal", <<"a">>)>>

-----------------------------------------------------------------------------
(* Minimality of the diff: checked under SpecDiff *)

\* the length of a longest common subsequence of a and b
RECURSIVE LcsLen(_, _)
LcsLen(a, b) ==
    IF a = <<>> \/ b = <<>> THEN 0
    ELSE IF Head(a) = Head(b) THEN 1 + LcsLen(Tail(a), Tail(b))
    ELSE LET l == LcsLen(Tail(a), b)
             r == LcsLen(a, Tail(b))
         IN  IF l >= r THEN l ELSE r

\* s is a subsequence of t
RECURSIVE IsSubsequence(_, _)
IsSubsequence(s, t) ==
    IF s = <<>> THEN TRUE
    ELSE IF t = <<>> THEN FALSE
    ELSE IF Head(s) = Head(t) THEN IsSubsequence(Tail(s), Tail(t))
    ELSE IsSubsequence(s, Tail(t))

EqualSide(segs) == ConcatKinds(segs, {"equal"}, 1)

\* C25: for every pair of texts the characters of the Equal segments
\* _calculate_diff returns through the matcher form a common subsequence of
\* original and modified as long as a longest common subsequence of the two.
C25_DiffIsMinimal ==
    dpc = "done" =>
        /\ IsSubsequence(EqualSide(diffs), original)
        /\ IsSubsequence(EqualSide(diffs), modified)
        /\ Len(EqualSide(diffs)) = LcsLen(original, modified)

-----------------------------------------------------------------------------
(* The language tags of Translate: checked under SpecAsm *)

\* C26: every Translate result, on every path, echoes the request's language
\* tags: target_language is the request's target_language and
\* source_language is the request's language hint.
C26_LanguageTagsEcho ==
    (apc = "done" /\ op = "translate") =>
        /\ result.target_language = req.target_language
        /\ result.source_language = req.language

\* C26 as amended: every Translate result, on every path, has the request's
\* target_language, and as source_language the request's language hint,
\* except that a hint that is None or the empty str is reported as "auto".
C26_LanguageTagsEchoOrAuto ==
    (apc = "done" /\ op = "translate") =>
        /\ apath \in {"ok", "failed", "except"}
        /\ result.target_language = req.target_language
        /\ req.language \notin {"<None>", ""} => result.source_language = req.language
        /\ req.language \in {"<None>", ""} => result.source_language = "auto"

\* C26 witness: a Translate without a hint answered through the except
\* block with the source language "auto" and the target of the request
C26_Witness ==
    /\ apc = "done" /\ op = "translate" /\ apath = "except"
    /\ req.language = "<None>" /\ result.source_language = "auto"
    /\ result.target_language = "zh" /\ req.text = <<"a">>

-----------------------------------------------------------------------------
(* Authentication of the routes: checked under SpecRoute *)

\* the request carries a bearer token signed by the service and not expired
Verified == credentials.header /\ credentials.signed /\ ~credentials.expired

\* the gateway, the endpoint and the assemblers have done nothing
NothingRan ==
    /\ pc = "route" /\ prompt = <<>> /\ messages = <<>> /\ sent = <<>> /\ log = <<>>
    /\ reply = <<>> /\ result = NoResponse /\ caller = NoCaller

\* C27: each route reaches the gateway only with an authenticated caller: a
\* request whose bearer token is absent, invalid or expired is answered 401
\* and for it no prompt is built and no request is sent to the endpoint; the
\* identity handed to the service, and used by the assembler, is the
\* username of the payload of the verified token.
C27_AuthenticatedOnly ==
    /\ ~Verified =>
          /\ NothingRan
          /\ apc \in {"auth", "unauthorized"}
          /\ ~(ENABLED Authorized)
    /\ apc = "unauthorized" =>
          /\ NothingRan
          /\ answer.status = 401 /\ answer.body = NoResponse
    /\ pc # "route" =>
          /\ Verified /\ credentials.username # "<null>"
          /\ caller = (IF credentials.username = "<absent>" THEN "" ELSE credentials.username)
          /\ answer.status # 401
    /\ (apc = "done" /\ op = "rewrite") => result.conversation_id[1] = caller

\* C27 witness: a Rewrite request with an expired token of u1 answered 401,
\* nothing sent
C27_Witness ==
    /\ op = "rewrite" /\ credentials = Bearer(TRUE, TRUE, "u1")
    /\ apc = "unauthorized" /\ answer.status = 401 /\ sent = <<>> /\ prompt = <<>>

-----------------------------------------------------------------------------
(* Termination of the call: checked under SpecLive *)

AtLeastZero(n) == IF n > 0 THEN n ELSE 0

\* C28: every call of _call_ai_service, each of whose network attempts ends
\* and each of whose backoff waits elapses, eventually returns a reply or
\* fails terminally, and at no time has it made more than max_retries
\* attempts or more than max_retries - 1 waits (none where max_retries is not
\* positive).
C28_CallTerminates ==
    /\ <>CallEnded
    /\ [](/\ Len(Posts) <= AtLeastZero(max_retries)
          /\ Len(Sleeps) <= AtLeastZero(max_retries - 1))
    /\ [][CallEnded => UNCHANGED callVars]_vars

\* C28 witness: a call with two attempts allowed has failed terminally on
\* two transport errors, after one wait
C28_Witness ==
    /\ max_retries = 2 /\ pc = "raised" /\ err.kind = "transport"
    /\ Len(Posts) = 2 /\ Len(Sleeps) = 1 /\ outcomes[1].kind = "transport"

-----------------------------------------------------------------------------
(* max_retries not positive: checked under SpecLive *)

\* C29: with max_retries 0 or negative the call sends no request, waits for
\* nothing and never returns a reply; it fails terminally by the exception
\* of the line after the loop.
C29_NoAttemptWhenNotPositive ==
    /\ [](max_retries <= 0 =>
            /\ log = <<>> /\ sent = <<>> /\ outcomes = <<>>
            /\ pc # "returned" /\ ret = NoReply)
    /\ (max_retries <= 0) ~> (pc = "raised" /\ err.kind = "exhausted")

\* C29 witness: the call with max_retries = -1 has raised without a request
C29_Witness ==
    /\ max_retries = -1 /\ pc = "raised" /\ err.kind = "exhausted"
    /\ log = <<>> /\ messages # <<>>

-----------------------------------------------------------------------------
(* Empty diff segments: checked under SpecAsm *)

\* C30: in every response of the four assemblers, on every path and for
\* every request text, the empty one included, every segment of diffs has a
\* non-empty text.
C30_NoEmptySegment ==
    apc = "done" =>
        \A i \in 1..Len(result.diffs) : result.diffs[i].value # <<>>
=============================================================================
